---- MODULE Spec2Model ----
(***************************************************************************)
(* session-memory: a SQLite-backed activity ledger (src/session-memory.py). *)
(*                                                                          *)
(* The store is the six tables of init_database.  Every Python str is a    *)
(* sequence of one-character strings, so that abspath, basename, suffix,   *)
(* LIKE and the substring tests are computed on the characters; Python's   *)
(* None is the reserved value None below.  CURRENT_TIMESTAMP is the        *)
(* variable clock, which counts whole seconds (SQLite's resolution).       *)
(***************************************************************************)
EXTENDS Integers, Sequences, FiniteSets, TLC

VARIABLES
    clock,        \* wall clock in whole seconds, the value of CURRENT_TIMESTAMP
    disk,         \* file system: absolute path -> entry
    sessions,     \* table sessions, in rowid order
    file_reads,   \* table file_reads, in rowid order
    changes,      \* table changes, in rowid order
    tests,        \* table tests, in rowid order
    notes,        \* table notes, in rowid order
    errors,       \* table errors, in rowid order
    ret,          \* the last call: its name, its arguments and what it returned
    resolved,     \* history: project path -> what its latest resolution returned
    appended,     \* history: <<session id, kind>> -> number of appends made
    calls         \* process -> its call in flight, when calls run in steps

vars == <<clock, disk, sessions, file_reads, changes, tests, notes, errors,
          ret, resolved, appended, calls>>

tables == <<file_reads, changes, tests, notes, errors>>

----------------------------------------------------------------------------
(* Strings *)

None == <<"None">>

repo_path == <<"/","r","e","p","o">>
other_path == <<"/","o","t","h","e","r">>
main_py == <<"m","a","i","n",".","p","y">>
repo_main_py == <<"/","r","e","p","o","/","m","a","i","n",".","p","y">>
content_x1 == <<"x","=","1">>
content_x2 == <<"x","=","2">>
refactor == <<"r","e","f","a","c","t","o","r">>
pytest_cmd == <<"p","y","t","e","s","t">>
todo == <<"t","o","d","o">>
bug == <<"b","u","g">>
urgent == <<"u","r","g","e","n","t">>
quoted == <<"a","\"",","," ","\\","b">>
ValueError == <<"V","a","l","u","e","E","r","r","o","r">>
boom == <<"b","o","o","m">>
why == <<"w","h","y">>

Min(a, b) == IF a <= b THEN a ELSE b

Max(a, b) == IF a >= b THEN a ELSE b

\* str.lower() on ASCII letters
LowerChar(c) ==
    CASE c = "A" -> "a" [] c = "B" -> "b" [] c = "C" -> "c" [] c = "D" -> "d"
      [] c = "E" -> "e" [] c = "F" -> "f" [] c = "G" -> "g" [] c = "H" -> "h"
      [] c = "I" -> "i" [] c = "J" -> "j" [] c = "K" -> "k" [] c = "L" -> "l"
      [] c = "M" -> "m" [] c = "N" -> "n" [] c = "O" -> "o" [] c = "P" -> "p"
      [] c = "Q" -> "q" [] c = "R" -> "r" [] c = "S" -> "s" [] c = "T" -> "t"
      [] c = "U" -> "u" [] c = "V" -> "v" [] c = "W" -> "w" [] c = "X" -> "x"
      [] c = "Y" -> "y" [] c = "Z" -> "z" [] OTHER -> c

Lower(s) == [i \in 1..Len(s) |-> LowerChar(s[i])]

\* s.endswith(t)
EndsWith(s, t) ==
    /\ Len(t) <= Len(s)
    /\ SubSeq(s, Len(s) - Len(t) + 1, Len(s)) = t

\* t in s (substring)
Contains(s, t) ==
    \E i \in 1..(Len(s) - Len(t) + 1) : SubSeq(s, i, i + Len(t) - 1) = t

\* index of the last "/" of s, 0 when there is none
LastSlash(s) ==
    LET idx == {i \in 1..Len(s) : s[i] = "/"}
    IN  IF idx = {} THEN 0 ELSE CHOOSE i \in idx : \A j \in idx : j <= i

\* os.path.basename, Path.name
Basename(s) == SubSeq(s, LastSlash(s) + 1, Len(s))

\* os.path.abspath of an argument given in working directory cwd
AbsPath(cwd, p) ==
    IF Len(p) > 0 /\ p[1] = "/" THEN p ELSE cwd \o <<"/">> \o p

----------------------------------------------------------------------------
(* SQL helpers *)

Kinds == {"reads", "changes", "tests", "notes", "errors"}

\* the table of one kind among the five tables tabs
TableIn(tabs, kind) ==
    CASE kind = "reads"   -> tabs[1]
      [] kind = "changes" -> tabs[2]
      [] kind = "tests"   -> tabs[3]
      [] kind = "notes"   -> tabs[4]
      [] kind = "errors"  -> tabs[5]

TableOf(kind) == TableIn(tables, kind)

SeqToSet(s) == {s[i] : i \in 1..Len(s)}

\* SELECT without the WHERE session_id = ?
WhereSession_AnySession(table, sid) == table

\* SELECT ... WHERE session_id = ?  (in rowid order)
WhereSession(table, sid) == SelectSeq(table, LAMBDA r : r.session_id = sid)

\* COUNT(*) without the WHERE session_id = ?
CountWhere_AllRows(table, sid) == Len(table)

\* COUNT(*) ... WHERE session_id = ?
CountWhere(table, sid) == Len(WhereSession(table, sid))

\* cursor.lastrowid after an INSERT into an AUTOINCREMENT table without deletes
NextRowid(table) == Len(table) + 1

\* INSERT OR REPLACE with the rowid of the last row
Insert_Replacing(table, row) ==
    IF table = <<>> THEN <<row>> ELSE [table EXCEPT ![Len(table)] = row]

\* INSERT INTO table
Insert(table, row) == Append(table, row)

\* ORDER BY key DESC LIMIT n over the row set rows, where key[r] is the value of
\* the ORDER BY column in row r: SQL leaves the order of rows with equal keys
\* open, so this is the set of all results the query may give.  A negative n
\* is no limit.
RECURSIVE OrderByDescLimit(_, _, _)
OrderByDescLimit(rows, key, n) ==
    IF rows = {} \/ n = 0
    THEN {<<>>}
    ELSE LET top == {r \in rows : \A q \in rows : key[q] <= key[r]}
         IN  UNION {{<<r>> \o rest : rest \in OrderByDescLimit(rows \ {r}, key, n - 1)}
                    : r \in top}

----------------------------------------------------------------------------
(* Processes.  A handler called as a whole leaves calls alone; when calls run
   in steps, calls[p] is the call process p is in: where it is (pc), the method
   and its arguments, its local variables, the number of rows file_reads had at
   the before-hash look-up, the store as it was when the call began, what the
   process's last call returned, and the number of connections the process has
   opened and not closed. *)

Procs == {"p1", "p2"}

NoCall == [pc |-> "idle", op |-> "none", cwd |-> <<>>, args |-> <<>>,
           found |-> 0, session_id |-> 0, before_hash |-> <<>>,
           reads_seen |-> 0, snapshot |-> <<>>, last_session |-> 0, open |-> 0]

----------------------------------------------------------------------------
(* SessionMemory.get_current_session *)

session_for == <<"S","e","s","s","i","o","n"," ","f","o","r"," ">>

SessionDescription(project_path) == session_for \o Basename(project_path)

\* get_current_session without the look-up: every call inserts a session
get_current_session_AlwaysInsert(sess, cwd, now) ==
    {[sessions   |-> Insert(sess,
                        [id           |-> NextRowid(sess),
                         project_path |-> cwd,
                         started_at   |-> now,
                         last_active  |-> now,
                         description  |-> SessionDescription(cwd),
                         status       |-> "active"]),
      session_id |-> NextRowid(sess)]}

\* get_current_session whose UPDATE has no WHERE: every session is touched
get_current_session_TouchAll(sess, cwd, now) ==
    LET active == {s \in SeqToSet(sess) :
                      s.project_path = cwd /\ s.status = "active"}
    IN  IF active # {}
        THEN {[sessions   |-> [i \in 1..Len(sess) |->
                                  [sess[i] EXCEPT !.last_active = now]],
               session_id |-> s.id] : s \in active}
        ELSE get_current_session_AlwaysInsert(sess, cwd, now)

\* get_current_session whose look-up leaves out the project path
get_current_session_AnyPath(sess, cwd, now) ==
    LET active == {s \in SeqToSet(sess) : s.status = "active"}
    IN  IF active # {}
        THEN {[sessions   |-> [sess EXCEPT ![s.id].last_active = now],
               session_id |-> s.id] : s \in active}
        ELSE get_current_session_AlwaysInsert(sess, cwd, now)

\* The outcomes of get_current_session in working directory cwd on table sess at
\* time now: the table afterwards and the session id returned.
get_current_session(sess, cwd, now) ==
    LET active == {s \in SeqToSet(sess) :
                      s.project_path = cwd /\ s.status = "active"}
        found  == OrderByDescLimit(active, [s \in active |-> s.last_active], 1)
    IN  IF active # {}
        THEN {[sessions   |-> [sess EXCEPT ![f[1].id].last_active = now],
               session_id |-> f[1].id] : f \in found}
        ELSE {[sessions   |-> Insert(sess,
                                 [id           |-> NextRowid(sess),
                                  project_path |-> cwd,
                                  started_at   |-> now,
                                  last_active  |-> now,
                                  description  |-> SessionDescription(cwd),
                                  status       |-> "active"]),
               session_id |-> NextRowid(sess)]}

----------------------------------------------------------------------------
(* The file system, SessionMemory.file_hash *)

\* A path's entry: a readable file with its bytes, a directory, a file that
\* cannot be opened (permission denied), or nothing at all.
File(bytes) == [kind |-> "file", bytes |-> bytes]

Missing == [kind |-> "missing", bytes |-> <<>>]

Directory == [kind |-> "dir", bytes |-> <<>>]

Denied == [kind |-> "denied", bytes |-> <<>>]

Stat(d, path) == IF path \in DOMAIN d THEN d[path] ELSE Missing

\* hashlib.md5(bytes).hexdigest() on the contents the model uses
md5(bytes) ==
    CASE bytes = content_x1 -> <<"a","2","5","5","5","1","2","f","9","d","6","1","a","6","7","7","7","b","d","5","a","3","0","4","2","3","5","b","d","2","6","d">>
      [] bytes = content_x2 -> <<"5","6","6","1","6","2","f","3","a","f","a","f","9","f","5","f","6","7","e","7","d","7","c","a","7","a","4","b","4","2","4","e">>
      [] bytes = <<>>       -> <<"d","4","1","d","8","c","d","9","8","f","0","0","b","2","0","4","e","9","8","0","0","9","9","8","e","c","f","8","4","2","7","e">>
      [] bytes = <<"d","e","f"," ","t","e","s","t","_","l","o","g","i","n","(",")",":","\n"," "," "," "," ","p","a","s","s","\n">> ->
             <<"8","0","9","3","3","9","d","d","3","9","0","9","4","5","7","4","5","0","4","e","5","9","9","7","6","2","8","9","7","a","8","7">>
      [] bytes = <<"c","l","a","s","s"," ","A"," ","{","}","\n">> ->
             <<"5","4","e","2","a","a","6","3","c","6","0","6","d","e","8","5","7","c","1","6","3","8","4","f","9","5","a","6","9","3","a","d">>
      [] bytes = <<"i","m","p","o","r","t"," ","x","\n">> ->
             <<"2","3","c","e","a","a","b","1","b","e","9","c","2","9","3","e","f","5","b","d","7","6","9","c","7","3","a","3","d","8","f","9">>
      [] bytes = <<"c","l","a","s","s"," ","A",":","\n">> ->
             <<"c","9","1","4","8","3","c","7","7","8","b","b","d","f","9","7","f","c","1","b","6","d","e","2","1","7","9","3","5","f","4","1">>
      [] bytes = <<"c","l","a","s","s"," ","F","o","o",":","\n">> ->
             <<"c","1","a","d","7","2","9","4","6","a","6","4","3","d","3","2","e","d","2","c","0","c","d","9","2","6","a","7","6","4","b","3">>
      [] bytes = <<"i","m","p","o","r","t"," ","o","s","\n","c","l","a","s","s"," ","F","o","o",":","\n"," "," "," "," ","d","e","f"," ","b","a","r","(","s","e","l","f",")",":","\n">> ->
             <<"2","6","0","9","f","d","1","5","2","5","3","7","2","7","1","3","3","d","8","1","f","0","7","f","d","e","0","8","9","4","8","a">>
      [] bytes = <<"i","m","p","o","r","t"," ","o","s","\n","d","e","f"," ","f","o","o","(",")",":","\n">> ->
             <<"b","5","9","9","a","b","2","8","2","9","1","f","7","d","1","d","1","d","3","e","8","a","0","6","4","d","4","9","d","0","3","2">>
      [] bytes = <<"f","r","o","m"," ","o","s"," ","i","m","p","o","r","t"," ","p","a","t","h","\n">> ->
             <<"4","3","5","4","d","9","4","4","f","1","3","b","0","6","4","9","9","9","0","6","7","1","9","3","8","9","c","1","8","5","9","9">>
      [] bytes = <<"x","=","1","\n">> ->
             <<"f","9","6","8","f","3","3","f","8","4","4","c","9","8","d","e","1","d","3","b","4","f","e","7","0","f","2","e","1","a","0","f">>
      [] bytes = <<"x","\n","x","\n","x","\n","x","\n","x","\n","x","\n","x","\n","x","\n","x","\n","x","\n","c","l","a","s","s"," ","F","o","o",":","\n">> ->
             <<"6","1","6","3","5","c","1","9","1","b","4","4","e","2","9","f","0","c","b","5","7","8","6","3","d","9","c","1","0","a","7","6">>
      [] bytes = <<"d","e","f"," ","t","e","s","t","_","a","(",")",":","\n">> ->
             <<"0","8","6","6","6","6","6","3","1","3","d","b","f","9","f","f","3","0","0","9","2","4","0","7","3","a","5","3","d","b","f","6">>
      [] bytes = <<"F","u","n","c","t","i","o","n"," "," ","g","o","(",")"," ","{","}","\n">> ->
             <<"f","7","f","0","e","b","2","0","7","f","a","1","b","c","2","c","5","2","6","c","6","b","3","3","4","2","3","3","6","b","6","2">>
      [] bytes = <<"s","u","b","c","l","a","s","s","\t","x","\n">> ->
             <<"8","4","a","a","7","d","0","6","6","e","0","3","e","3","a","1","6","8","c","d","0","b","4","e","6","e","d","1","a","7","3","5">>
      [] bytes = <<"d","e","f","\n">> ->
             <<"6","1","4","d","d","0","e","9","7","7","b","e","c","b","4","c","6","f","7","f","a","9","9","e","6","4","5","4","9","b","1","2">>

\* a path that cannot be opened hashed as if it held no bytes
file_hash_EmptyWhenUnreadable(d, file_path) == md5(Stat(d, file_path).bytes)

\* open(file_path, 'rb') raises on a missing path, a directory and a file the
\* process may not read; the bare except turns each into None.
file_hash(d, file_path) ==
    IF Stat(d, file_path).kind = "file"
    THEN md5(Stat(d, file_path).bytes)
    ELSE None

----------------------------------------------------------------------------
(* SessionMemory.infer_context *)

\* dict contexts, in insertion order: <<suffix, description>>
contexts ==
    << <<<<".","p","y">>,
         <<"E","x","a","m","i","n","i","n","g"," ","P","y","t","h","o","n"," ","c","o","d","e">>>>,
       <<<<".","j","s">>,
         <<"E","x","a","m","i","n","i","n","g"," ","J","a","v","a","S","c","r","i","p","t"," ","c","o","d","e">>>>,
       <<<<".","t","s">>,
         <<"E","x","a","m","i","n","i","n","g"," ","T","y","p","e","S","c","r","i","p","t"," ","c","o","d","e">>>>,
       <<<<".","j","s","x">>,
         <<"E","x","a","m","i","n","i","n","g"," ","R","e","a","c","t"," ","c","o","m","p","o","n","e","n","t">>>>,
       <<<<".","t","s","x">>,
         <<"E","x","a","m","i","n","i","n","g"," ","R","e","a","c","t"," ","T","y","p","e","S","c","r","i","p","t"," ","c","o","m","p","o","n","e","n","t">>>>,
       <<<<".","c","s","s">>,
         <<"E","x","a","m","i","n","i","n","g"," ","s","t","y","l","e","s">>>>,
       <<<<".","s","c","s","s">>,
         <<"E","x","a","m","i","n","i","n","g"," ","S","C","S","S"," ","s","t","y","l","e","s">>>>,
       <<<<".","h","t","m","l">>,
         <<"E","x","a","m","i","n","i","n","g"," ","H","T","M","L"," ","m","a","r","k","u","p">>>>,
       <<<<".","j","s","o","n">>,
         <<"E","x","a","m","i","n","i","n","g"," ","c","o","n","f","i","g","u","r","a","t","i","o","n","/","d","a","t","a">>>>,
       <<<<".","m","d">>,
         <<"E","x","a","m","i","n","i","n","g"," ","d","o","c","u","m","e","n","t","a","t","i","o","n">>>>,
       <<<<".","y","m","l">>,
         <<"E","x","a","m","i","n","i","n","g"," ","Y","A","M","L"," ","c","o","n","f","i","g","u","r","a","t","i","o","n">>>>,
       <<<<".","y","a","m","l">>,
         <<"E","x","a","m","i","n","i","n","g"," ","Y","A","M","L"," ","c","o","n","f","i","g","u","r","a","t","i","o","n">>>>,
       <<<<".","t","o","m","l">>,
         <<"E","x","a","m","i","n","i","n","g"," ","T","O","M","L"," ","c","o","n","f","i","g","u","r","a","t","i","o","n">>>>,
       <<<<".","d","o","c","k","e","r","f","i","l","e">>,
         <<"E","x","a","m","i","n","i","n","g"," ","D","o","c","k","e","r"," ","c","o","n","f","i","g","u","r","a","t","i","o","n">>>>,
       <<<<".","s","q","l">>,
         <<"E","x","a","m","i","n","i","n","g"," ","d","a","t","a","b","a","s","e"," ","s","c","h","e","m","a","/","q","u","e","r","i","e","s">>>>,
       <<<<".","s","h">>,
         <<"E","x","a","m","i","n","i","n","g"," ","s","h","e","l","l"," ","s","c","r","i","p","t">>>>,
       <<<<".","b","a","s","h">>,
         <<"E","x","a","m","i","n","i","n","g"," ","b","a","s","h"," ","s","c","r","i","p","t">>>>,
       <<<<".","z","s","h">>,
         <<"E","x","a","m","i","n","i","n","g"," ","z","s","h"," ","s","c","r","i","p","t">>>> >>

\* dict special_files, in insertion order: <<pattern, description>>
special_files ==
    << <<<<"p","a","c","k","a","g","e",".","j","s","o","n">>,
         <<"E","x","a","m","i","n","i","n","g"," ","p","r","o","j","e","c","t"," ","d","e","p","e","n","d","e","n","c","i","e","s"," ","a","n","d"," ","s","c","r","i","p","t","s">>>>,
       <<<<"r","e","q","u","i","r","e","m","e","n","t","s",".","t","x","t">>,
         <<"E","x","a","m","i","n","i","n","g"," ","P","y","t","h","o","n"," ","d","e","p","e","n","d","e","n","c","i","e","s">>>>,
       <<<<"c","a","r","g","o",".","t","o","m","l">>,
         <<"E","x","a","m","i","n","i","n","g"," ","R","u","s","t"," ","p","r","o","j","e","c","t"," ","c","o","n","f","i","g","u","r","a","t","i","o","n">>>>,
       <<<<"d","o","c","k","e","r","f","i","l","e">>,
         <<"E","x","a","m","i","n","i","n","g"," ","D","o","c","k","e","r"," ","c","o","n","t","a","i","n","e","r"," ","s","e","t","u","p">>>>,
       <<<<"m","a","k","e","f","i","l","e">>,
         <<"E","x","a","m","i","n","i","n","g"," ","b","u","i","l","d"," ","c","o","n","f","i","g","u","r","a","t","i","o","n">>>>,
       <<<<"r","e","a","d","m","e">>,
         <<"R","e","a","d","i","n","g"," ","p","r","o","j","e","c","t"," ","d","o","c","u","m","e","n","t","a","t","i","o","n">>>>,
       <<<<"c","h","a","n","g","e","l","o","g">>,
         <<"E","x","a","m","i","n","i","n","g"," ","p","r","o","j","e","c","t"," ","h","i","s","t","o","r","y">>>>,
       <<<<"l","i","c","e","n","s","e">>,
         <<"E","x","a","m","i","n","i","n","g"," ","p","r","o","j","e","c","t"," ","l","i","c","e","n","s","e">>>>,
       <<<<".","g","i","t","i","g","n","o","r","e">>,
         <<"E","x","a","m","i","n","i","n","g"," ","g","i","t"," ","i","g","n","o","r","e"," ","p","a","t","t","e","r","n","s">>>>,
       <<<<".","e","n","v">>,
         <<"E","x","a","m","i","n","i","n","g"," ","e","n","v","i","r","o","n","m","e","n","t"," ","c","o","n","f","i","g","u","r","a","t","i","o","n">>>>,
       <<<<"c","o","n","f","i","g">>,
         <<"E","x","a","m","i","n","i","n","g"," ","c","o","n","f","i","g","u","r","a","t","i","o","n"," ","f","i","l","e">>>> >>

\* index of the last "." of s, 0 when there is none
LastDot(s) ==
    LET idx == {i \in 1..Len(s) : s[i] = "."}
    IN  IF idx = {} THEN 0 ELSE CHOOSE i \in idx : \A j \in idx : j <= i

\* PurePath.suffix of a file name: from its last dot, unless that dot is the
\* first or the last character
Suffix(name) ==
    IF 1 < LastDot(name) /\ LastDot(name) < Len(name)
    THEN SubSeq(name, LastDot(name), Len(name))
    ELSE <<>>

\* ''.join(f.readlines()[:n]): the text up to and including its n-th newline
FirstLines(text, n) ==
    LET nl == {i \in 1..Len(text) : text[i] = "\n"}
        cut == {i \in nl : Cardinality({j \in nl : j <= i}) = n}
    IN  IF cut = {} THEN text ELSE SubSeq(text, 1, CHOOSE i \in cut : TRUE)

\* \s of re
IsSpace(c) == c \in {" ", "\t", "\n", "\r", "\f"}

\* \w of re, on ASCII
IsWord(c) ==
    c \in {"a","b","c","d","e","f","g","h","i","j","k","l","m","n","o","p","q",
           "r","s","t","u","v","w","x","y","z","A","B","C","D","E","F","G","H",
           "I","J","K","L","M","N","O","P","Q","R","S","T","U","V","W","X","Y",
           "Z","0","1","2","3","4","5","6","7","8","9","_"}

\* re.search(kw + r'\s+\w+', text)
SearchKeyword(kw, text) ==
    \E i \in 1..Len(text) :
        /\ i + Len(kw) - 1 <= Len(text)
        /\ SubSeq(text, i, i + Len(kw) - 1) = kw
        /\ \E j \in (i + Len(kw) + 1)..Len(text) :
              /\ \A k \in (i + Len(kw))..(j - 1) : IsSpace(text[k])
              /\ IsWord(text[j])

\* the last entry of the dict table whose key is in matching
FirstMatch_LastMatch(table, matching) ==
    LET hits == {i \in 1..Len(table) : table[i][1] \in matching}
    IN  IF hits = {} THEN <<>>
        ELSE table[CHOOSE i \in hits : \A j \in hits : j <= i]

\* the first entry of the dict table whose key is in matching, <<>> if none
FirstMatch(table, matching) ==
    LET hits == {i \in 1..Len(table) : table[i][1] \in matching}
    IN  IF hits = {} THEN <<>>
        ELSE table[CHOOSE i \in hits : \A j \in hits : i <= j]

\* the keys of the dict table
Keys(table) == {table[i][1] : i \in 1..Len(table)}

\* the description chosen inside the try block once the file has been opened
Refine(filename_lower, ext, base, first_lines) ==
    IF Contains(filename_lower, <<"t","e","s","t">>) \/ Contains(filename_lower, <<"s","p","e","c">>)
    THEN <<"E","x","a","m","i","n","i","n","g"," ">> \o ext \o <<" ","t","e","s","t"," ","f","i","l","e">>
    ELSE IF Contains(filename_lower, <<"a","p","i">>) \/ Contains(filename_lower, <<"e","n","d","p","o","i","n","t">>)
    THEN <<"E","x","a","m","i","n","i","n","g"," ">> \o ext \o <<" ","A","P","I"," ","c","o","d","e">>
    ELSE IF Contains(filename_lower, <<"c","o","m","p","o","n","e","n","t">>)
    THEN <<"E","x","a","m","i","n","i","n","g"," ">> \o ext \o <<" ","c","o","m","p","o","n","e","n","t">>
    ELSE IF Contains(filename_lower, <<"u","t","i","l">>) \/ Contains(filename_lower, <<"h","e","l","p","e","r">>)
    THEN <<"E","x","a","m","i","n","i","n","g"," ">> \o ext \o <<" ","u","t","i","l","i","t","y"," ","f","u","n","c","t","i","o","n","s">>
    ELSE IF Contains(filename_lower, <<"c","o","n","f","i","g">>) \/ Contains(filename_lower, <<"s","e","t","t","i","n","g">>)
    THEN <<"E","x","a","m","i","n","i","n","g"," ">> \o ext \o <<" ","c","o","n","f","i","g","u","r","a","t","i","o","n">>
    ELSE IF SearchKeyword(<<"c","l","a","s","s">>, first_lines)
    THEN <<"E","x","a","m","i","n","i","n","g"," ">> \o ext \o <<" ","c","l","a","s","s"," ","d","e","f","i","n","i","t","i","o","n">>
    ELSE IF SearchKeyword(<<"f","u","n","c","t","i","o","n">>, first_lines) \/ SearchKeyword(<<"d","e","f">>, first_lines)
    THEN <<"E","x","a","m","i","n","i","n","g"," ">> \o ext \o <<" ","f","u","n","c","t","i","o","n"," ","d","e","f","i","n","i","t","i","o","n","s">>
    ELSE IF Contains(first_lines, <<"i","m","p","o","r","t">>) \/ Contains(first_lines, <<"f","r","o","m">>)
    THEN <<"E","x","a","m","i","n","i","n","g"," ">> \o ext \o <<" ","m","o","d","u","l","e"," ","i","m","p","o","r","t","s"," ","a","n","d"," ","s","e","t","u","p">>
    ELSE base

\* infer_context on the absolute path file_path.  The outer except is not
\* modelled: nothing in the body raises on a str path.
infer_context(d, file_path) ==
    LET filename_lower == Lower(Basename(file_path))
        special == FirstMatch(special_files,
                              {p \in Keys(special_files) : Contains(filename_lower, p)})
        suffix  == Lower(Suffix(Basename(file_path)))
        known   == FirstMatch(contexts, {suffix})
        ext     == SubSeq(suffix, 2, Len(suffix))
    IN  IF special # <<>> THEN special[2]
        ELSE IF known # <<>>
        THEN IF Stat(d, file_path).kind = "file"
             THEN Refine(filename_lower, ext, known[2],
                         Lower(FirstLines(Stat(d, file_path).bytes, 10)))
             ELSE known[2]
        ELSE IF Stat(d, file_path).kind = "dir"
        THEN <<"E","x","a","m","i","n","i","n","g"," ","d","i","r","e","c","t","o","r","y"," ","s","t","r","u","c","t","u","r","e">>
        ELSE <<"E","x","a","m","i","n","i","n","g"," ">> \o (IF suffix # <<>> THEN ext ELSE <<"f","i","l","e">>)

----------------------------------------------------------------------------
(* The handlers.  Each is one call of a SessionMemory method made by a process
   whose working directory is cwd; a call runs to completion before the next
   one starts, within one reading of the clock. *)

\* a call whose get_current_session writes nothing
Resolved_ReadOnly(cwd, r) ==
    /\ sessions' = sessions
    /\ resolved' = resolved

\* what the call's get_current_session leaves behind
Resolved(cwd, r) ==
    /\ sessions' = r.sessions
    /\ resolved' = [resolved EXCEPT ![cwd] =
                       [session_id  |-> r.session_id,
                        last_active |-> r.sessions[r.session_id].last_active]]

Counted(sid, kind) ==
    appended' = [appended EXCEPT ![kind] = Append(@, sid)]

\* CLI command init
init(cwd) ==
    \E r \in get_current_session(sessions, cwd, clock) :
        /\ Resolved(cwd, r)
        /\ ret' = [op |-> "init", cwd |-> cwd, session_id |-> r.session_id]
        /\ UNCHANGED <<calls, clock, disk, tables, appended>>

log_read(cwd, file_arg, context_arg) ==
    \E r \in get_current_session(sessions, cwd, clock) :
        LET file_path == AbsPath(cwd, file_arg)
            context   == IF context_arg = None
                         THEN infer_context(disk, file_path)
                         ELSE context_arg
        IN  /\ Resolved(cwd, r)
            /\ file_reads' = Insert(file_reads,
                                 [id         |-> NextRowid(file_reads),
                                  session_id |-> r.session_id,
                                  file_path  |-> file_path,
                                  file_hash  |-> file_hash(disk, file_path),
                                  read_at    |-> clock,
                                  context    |-> context])
            /\ Counted(r.session_id, "reads")
            /\ ret' = [op |-> "log_read", cwd |-> cwd, session_id |-> r.session_id,
                       value |-> NextRowid(file_reads)]
            /\ UNCHANGED <<calls, clock, disk, changes, tests, notes, errors>>

\* the look-up without its condition on file_path
latest_read_hash_AnyPath(reads, sid, file_path) ==
    LET rows  == {r \in SeqToSet(reads) : r.session_id = sid}
        found == OrderByDescLimit(rows, [r \in rows |-> r.read_at], 1)
    IN  IF rows = {} THEN {None} ELSE {f[1].file_hash : f \in found}

\* SELECT file_hash FROM file_reads WHERE session_id = ? AND file_path = ?
\* ORDER BY read_at DESC LIMIT 1: the values before_hash may get
latest_read_hash(reads, sid, file_path) ==
    LET rows  == {r \in SeqToSet(reads) :
                     r.session_id = sid /\ r.file_path = file_path}
        found == OrderByDescLimit(rows, [r \in rows |-> r.read_at], 1)
    IN  IF rows = {} THEN {None} ELSE {f[1].file_hash : f \in found}

before_hashes(reads, sid, file_path, change_type) ==
    IF change_type \in {"modify", "delete"}
    THEN latest_read_hash(reads, sid, file_path)
    ELSE {None}

\* after_hash computed whatever the change type
after_hash_of_AnyType(d, file_path, change_type) == file_hash(d, file_path)

after_hash_of(d, file_path, change_type) ==
    IF change_type \in {"create", "modify"}
    THEN file_hash(d, file_path)
    ELSE None

log_change(cwd, file_arg, change_type, description) ==
    \E r \in get_current_session(sessions, cwd, clock) :
        LET file_path == AbsPath(cwd, file_arg)
        IN  \E before_hash \in before_hashes(file_reads, r.session_id,
                                             file_path, change_type) :
            /\ Resolved(cwd, r)
            /\ changes' = Insert(changes,
                              [id          |-> NextRowid(changes),
                               session_id  |-> r.session_id,
                               file_path   |-> file_path,
                               change_type |-> change_type,
                               description |-> description,
                               before_hash |-> before_hash,
                               after_hash  |-> after_hash_of(disk, file_path,
                                                             change_type),
                               changed_at  |-> clock])
            /\ Counted(r.session_id, "changes")
            /\ ret' = [op |-> "log_change", cwd |-> cwd,
                       session_id |-> r.session_id,
                       value |-> NextRowid(changes)]
            /\ UNCHANGED <<calls, clock, disk, file_reads, tests, notes, errors>>

log_test(cwd, command, result, output) ==
    \E r \in get_current_session(sessions, cwd, clock) :
        /\ Resolved(cwd, r)
        /\ tests' = Insert(tests,
                        [id         |-> NextRowid(tests),
                         session_id |-> r.session_id,
                         command    |-> command,
                         result     |-> result,
                         output     |-> output,
                         run_at     |-> clock])
        /\ Counted(r.session_id, "tests")
        /\ ret' = [op |-> "log_test", cwd |-> cwd, session_id |-> r.session_id,
                   value |-> NextRowid(tests)]
        /\ UNCHANGED <<calls, clock, disk, file_reads, changes, notes, errors>>

\* None where a list of str is expected (tags=None)
NoTags == <<None>>

\* a str written between quotes as it is
JsonEscape_Unescaped(s) == s

\* json.dumps of a str: quotes and backslashes are escaped
RECURSIVE JsonEscape(_)
JsonEscape(s) ==
    IF s = <<>> THEN <<>>
    ELSE (IF Head(s) \in {"\"", "\\"} THEN <<"\\", Head(s)>> ELSE <<Head(s)>>)
         \o JsonEscape(Tail(s))

\* json.dumps of a list of str: ["a", "b"]
RECURSIVE JoinQuoted(_)
JoinQuoted(tags) ==
    IF tags = <<>> THEN <<>>
    ELSE <<"\"">> \o JsonEscape(Head(tags)) \o <<"\"">>
         \o (IF Len(tags) > 1 THEN <<",", " ">> ELSE <<>>)
         \o JoinQuoted(Tail(tags))

json_dumps(tags) == <<"[">> \o JoinQuoted(tags) \o <<"]">>

RECURSIVE ParseList(_, _, _, _, _)
\* json.loads of the text of a list of str, read from position i: acc holds the
\* items read, cur the item being read, state is "out" between items, "in"
\* inside one and "esc" after a backslash
ParseList(s, i, acc, cur, state) ==
    IF i > Len(s) THEN acc
    ELSE CASE state = "esc" -> ParseList(s, i + 1, acc, Append(cur, s[i]), "in")
           [] state = "in" /\ s[i] = "\\" -> ParseList(s, i + 1, acc, cur, "esc")
           [] state = "in" /\ s[i] = "\"" -> ParseList(s, i + 1, Append(acc, cur), <<>>, "out")
           [] state = "in" /\ s[i] \notin {"\\", "\""} ->
                  ParseList(s, i + 1, acc, Append(cur, s[i]), "in")
           [] state = "out" /\ s[i] = "\"" -> ParseList(s, i + 1, acc, <<>>, "in")
           [] state = "out" /\ s[i] = "]" -> acc
           [] state = "out" /\ s[i] \notin {"\"", "]"} ->
                  ParseList(s, i + 1, acc, cur, "out")

\* json.loads(result['tags']) of a stored list
json_loads(text) == ParseList(text, 1, <<>>, <<>>, "out")

\* json.dumps(tags) if tags else None: an empty list is falsy
tags_json_of(tags) ==
    IF tags # NoTags /\ tags # <<>> THEN json_dumps(tags) ELSE None

add_note(cwd, content, tags) ==
    \E r \in get_current_session(sessions, cwd, clock) :
        /\ Resolved(cwd, r)
        /\ notes' = Insert(notes,
                        [id         |-> NextRowid(notes),
                         session_id |-> r.session_id,
                         content    |-> content,
                         tags       |-> tags_json_of(tags),
                         created_at |-> clock])
        /\ Counted(r.session_id, "notes")
        /\ ret' = [op |-> "add_note", cwd |-> cwd, session_id |-> r.session_id,
                   value |-> NextRowid(notes)]
        /\ UNCHANGED <<calls, clock, disk, file_reads, changes, tests, errors>>

log_error(cwd, error_type, error_message, file_arg, context) ==
    \E r \in get_current_session(sessions, cwd, clock) :
        /\ Resolved(cwd, r)
        /\ errors' = Insert(errors,
                         [id            |-> NextRowid(errors),
                          session_id    |-> r.session_id,
                          error_type    |-> error_type,
                          error_message |-> error_message,
                          file_path     |-> IF file_arg # None /\ file_arg # <<>>
                                            THEN AbsPath(cwd, file_arg)
                                            ELSE None,
                          context       |-> context,
                          occurred_at   |-> clock])
        /\ Counted(r.session_id, "errors")
        /\ ret' = [op |-> "log_error", cwd |-> cwd, session_id |-> r.session_id,
                   value |-> NextRowid(errors)]
        /\ UNCHANGED <<calls, clock, disk, file_reads, changes, tests, notes>>

----------------------------------------------------------------------------
(* SessionMemory.query_session *)

\* the columns each query selects
ReadRow(r) == [file_path |-> r.file_path, read_at |-> r.read_at,
               context |-> r.context]

\* the changes query without its description column
ChangeRow_NoDescription(r) ==
    [file_path |-> r.file_path, change_type |-> r.change_type,
     changed_at |-> r.changed_at]

ChangeRow(r) == [file_path |-> r.file_path, change_type |-> r.change_type,
                 description |-> r.description, changed_at |-> r.changed_at]

TestRow(r) == [command |-> r.command, result |-> r.result,
               output |-> r.output, run_at |-> r.run_at]

NoteRow(r) == [content |-> r.content, tags |-> r.tags,
               created_at |-> r.created_at]

ErrorRow(r) == [error_type |-> r.error_type, error_message |-> r.error_message,
                file_path |-> r.file_path, context |-> r.context,
                occurred_at |-> r.occurred_at]

\* the rows a query of one kind fetches, as stored, in the orders SQL allows
FetchKind(query_type, sid, limit) ==
    LET rows == SeqToSet(WhereSession(TableOf(query_type), sid))
    IN  CASE query_type = "reads" ->
               OrderByDescLimit(rows, [r \in rows |-> r.read_at], limit)
          [] query_type = "changes" ->
               OrderByDescLimit(rows, [r \in rows |-> r.changed_at], limit)
          [] query_type = "tests" ->
               OrderByDescLimit(rows, [r \in rows |-> r.run_at], limit)
          [] query_type = "notes" ->
               OrderByDescLimit(rows, [r \in rows |-> r.created_at], limit)
          [] query_type = "errors" ->
               OrderByDescLimit(rows, [r \in rows |-> r.occurred_at], limit)

\* [dict(row) for row in cursor.fetchall()]
Project(query_type, rows) ==
    [i \in 1..Len(rows) |->
        CASE query_type = "reads"   -> ReadRow(rows[i])
          [] query_type = "changes" -> ChangeRow(rows[i])
          [] query_type = "tests"   -> TestRow(rows[i])
          [] query_type = "notes"   -> NoteRow(rows[i])
          [] query_type = "errors"  -> ErrorRow(rows[i])]

\* a summary that lists only the kinds the session has events of
Summary_NonEmptyOnly(sid) ==
    SelectSeq(<< [type |-> "reads",   count |-> CountWhere(file_reads, sid)],
                 [type |-> "changes", count |-> CountWhere(changes, sid)],
                 [type |-> "tests",   count |-> CountWhere(tests, sid)],
                 [type |-> "notes",   count |-> CountWhere(notes, sid)],
                 [type |-> "errors",  count |-> CountWhere(errors, sid)] >>,
              LAMBDA row : row.count > 0)

\* the summary query, when query_type is none of the five kinds
Summary(sid) ==
    << [type |-> "reads",   count |-> CountWhere(file_reads, sid)],
       [type |-> "changes", count |-> CountWhere(changes, sid)],
       [type |-> "tests",   count |-> CountWhere(tests, sid)],
       [type |-> "notes",   count |-> CountWhere(notes, sid)],
       [type |-> "errors",  count |-> CountWhere(errors, sid)] >>

\* what query_session returns for session sid: the list of dicts, and (for the
\* five kinds) the rowids of the rows it was made from
QueryResults(query_type, sid, limit) ==
    IF query_type \in Kinds
    THEN {[value |-> Project(query_type, rows),
           ids   |-> [i \in 1..Len(rows) |-> rows[i].id]]
            : rows \in FetchKind(query_type, sid, limit)}
    ELSE {[value |-> Summary(sid), ids |-> <<>>]}

query_session(cwd, query_type, limit) ==
    \E r \in get_current_session(sessions, cwd, clock) :
        \E q \in QueryResults(query_type, r.session_id, limit) :
            /\ Resolved(cwd, r)
            /\ ret' = [op |-> "query_session", cwd |-> cwd,
                       session_id |-> r.session_id, query_type |-> query_type,
                       limit |-> limit, value |-> q.value, ids |-> q.ids]
            /\ UNCHANGED <<calls, clock, disk, tables, appended>>

----------------------------------------------------------------------------
(* SessionMemory.get_session_analytics *)

\* the minutes rounded to the nearest whole number
duration_minutes_Rounded(started_at, last_active) ==
    (last_active - started_at + 30) \div 60

\* int(x / 60) for a whole number of seconds x: truncation towards zero
duration_minutes(started_at, last_active) ==
    LET d == last_active - started_at
    IN  IF d >= 0 THEN d \div 60 ELSE -((-d) \div 60)

(* Python's float is an IEEE 754 double.  A double above zero is the record
   [m, e]: m holds the 53 bits of its significand, most significant first with
   m[1] = 1, and its value is m * 2^(e - 52).  Zero has no bits. *)
Precision == 53

FloatZero == [m |-> <<>>, e |-> 0]

AllZero(bits) == \A i \in 1..Len(bits) : bits[i] = 0

RECURSIVE Increment(_)
\* bits + 1 in the same number of bits; all ones wraps to all zeros
Increment(bits) ==
    IF bits = <<>> THEN <<>>
    ELSE LET n == Len(bits)
         IN  IF bits[n] = 0 THEN SubSeq(bits, 1, n - 1) \o <<1>>
             ELSE Increment(SubSeq(bits, 1, n - 1)) \o <<0>>

\* round to nearest, ties to even: above says that what was cut off is more
\* than half a unit of the last kept bit, half that it is exactly half
RoundNearestEven(bits, e, above, half) ==
    IF above \/ (half /\ bits[Len(bits)] = 1)
    THEN LET up == Increment(bits)
         IN  IF AllZero(up) THEN [m |-> <<1>> \o Tail(up), e |-> e + 1]
             ELSE [m |-> up, e |-> e]
    ELSE [m |-> bits, e |-> e]

RECURSIVE Normalise(_, _, _)
\* n / d scaled by a power of two into [1, 2)
Normalise(n, d, e) ==
    IF n < d THEN Normalise(2 * n, d, e - 1)
    ELSE IF n >= 2 * d THEN Normalise(n, 2 * d, e + 1)
    ELSE [n |-> n, d |-> d, e |-> e]

RECURSIVE QuotientBits(_, _, _)
\* the first k bits of r / d, for r < 2d, followed by twice what remains
QuotientBits(r, d, k) ==
    IF k = 0 THEN <<r>>
    ELSE IF r >= d THEN <<1>> \o QuotientBits(2 * (r - d), d, k - 1)
    ELSE <<0>> \o QuotientBits(2 * r, d, k - 1)

\* n / d for ints n >= 0 and d > 0: the nearest double to the quotient
FloatDiv(n, d) ==
    IF n = 0 THEN FloatZero
    ELSE LET s   == Normalise(n, d, 0)
             q   == QuotientBits(s.n, s.d, Precision)
             rem == q[Precision + 1]
         IN  RoundNearestEven(SubSeq(q, 1, Precision), s.e, rem > s.d, rem = s.d)

RECURSIVE BitsOfLsb(_)
BitsOfLsb(n) == IF n = 0 THEN <<>> ELSE <<n % 2>> \o BitsOfLsb(n \div 2)

RECURSIVE TimesLsb(_, _, _)
\* bits * c + carry, least significant bit first
TimesLsb(bits, c, carry) ==
    IF bits = <<>> THEN BitsOfLsb(carry)
    ELSE LET v == Head(bits) * c + carry
         IN  <<v % 2>> \o TimesLsb(Tail(bits), c, v \div 2)

Reverse(s) == [i \in 1..Len(s) |-> s[Len(s) + 1 - i]]

\* the exact product bits * c, most significant bit first
Times(bits, c) == Reverse(TimesLsb(Reverse(bits), c, 0))

\* x * c for a double x and an int c > 0: the nearest double to the product
FloatMul(x, c) ==
    IF x.m = <<>> THEN FloatZero
    ELSE LET p     == Times(x.m, c)
             extra == Len(p) - Precision
             lost  == SubSeq(p, Precision + 1, Len(p))
             top   == extra > 0 /\ lost[1] = 1
         IN  RoundNearestEven(SubSeq(p, 1, Precision), x.e + extra,
                              top /\ ~AllZero(Tail(lost)),
                              top /\ AllZero(Tail(lost)))

\* SELECT result, COUNT(*) FROM tests WHERE session_id = ? GROUP BY result
test_results(sid) ==
    LET rows == WhereSession(tests, sid)
    IN  [res \in {rows[i].result : i \in 1..Len(rows)} |->
            Len(SelectSeq(rows, LAMBDA t : t.result = res))]

RECURSIVE SumValues(_, _)
SumValues(f, dom) ==
    IF dom = {} THEN 0
    ELSE LET k == CHOOSE k \in dom : TRUE
         IN  f[k] + SumValues(f, dom \ {k})

\* the denominator counts the tests whose result is pass or fail only
test_success_rate_DecidedOnly(sid) ==
    LET counts == test_results(sid)
        passed == IF "pass" \in DOMAIN counts THEN counts["pass"] ELSE 0
        failed == IF "fail" \in DOMAIN counts THEN counts["fail"] ELSE 0
    IN  IF passed + failed = 0 THEN FloatZero
        ELSE FloatMul(FloatDiv(passed, passed + failed), 100)

\* test_results.get('pass', 0) / total_tests * 100
test_success_rate(sid) ==
    LET counts == test_results(sid)
        total  == SumValues(counts, DOMAIN counts)
        passed == IF "pass" \in DOMAIN counts THEN counts["pass"] ELSE 0
    IN  FloatMul(FloatDiv(passed, total), 100)

total_tests(sid) == SumValues(test_results(sid), DOMAIN test_results(sid))

\* the CASE of the file-type query; LIKE ignores the case of ASCII letters
FileType(file_path) ==
    LET p == Lower(file_path)
    IN  CASE EndsWith(p, <<".","p","y">>) -> "Python"
          [] EndsWith(p, <<".","j","s">>) -> "JavaScript"
          [] EndsWith(p, <<".","t","s">>) -> "TypeScript"
          [] EndsWith(p, <<".","j","s","x">>) -> "React"
          [] EndsWith(p, <<".","t","s","x">>) -> "React TS"
          [] EndsWith(p, <<".","c","s","s">>) -> "CSS"
          [] EndsWith(p, <<".","m","d">>) -> "Markdown"
          [] EndsWith(p, <<".","j","s","o","n">>) -> "JSON"
          [] OTHER -> "Other"

\* the paths of file_reads alone
UnionAllPaths_ReadsOnly(sid) ==
    LET rs == WhereSession(file_reads, sid)
    IN  [i \in 1..Len(rs) |-> rs[i].file_path]

\* file_path of file_reads UNION ALL file_path of changes, for the session
UnionAllPaths(sid) ==
    LET rs == WhereSession(file_reads, sid)
        cs == WhereSession(changes, sid)
    IN  [i \in 1..Len(rs) |-> rs[i].file_path]
        \o [i \in 1..Len(cs) |-> cs[i].file_path]

\* GROUP BY file_type with COUNT(*)
FileTypeGroups(sid) ==
    LET paths == UnionAllPaths(sid)
    IN  {[file_type |-> ft,
          count     |-> Len(SelectSeq(paths, LAMBDA p : FileType(p) = ft))]
            : ft \in {FileType(paths[i]) : i \in 1..Len(paths)}}

TopFileTypes == 5

\* the file-type query without its LIMIT
file_types_Unlimited(sid) ==
    OrderByDescLimit(FileTypeGroups(sid),
                     [g \in FileTypeGroups(sid) |-> g.count],
                     Cardinality(FileTypeGroups(sid)))

\* ORDER BY count DESC LIMIT 5, then dict(): the histograms analytics may give
file_types(sid) ==
    OrderByDescLimit(FileTypeGroups(sid),
                     [g \in FileTypeGroups(sid) |-> g.count], TopFileTypes)

\* the analytics dict for session sid of table sess
Analytics(sess, sid, hist) ==
    LET base == [duration_minutes |-> duration_minutes(sess[sid].started_at,
                                                        sess[sid].last_active),
                 files_read    |-> CountWhere(file_reads, sid),
                 changes_made  |-> CountWhere(changes, sid),
                 tests_run     |-> CountWhere(tests, sid),
                 notes_added   |-> CountWhere(notes, sid),
                 errors_logged |-> CountWhere(errors, sid),
                 file_types    |-> hist]
    IN  IF total_tests(sid) > 0
        THEN base @@ [test_success_rate |-> test_success_rate(sid)]
        ELSE base

get_session_analytics(cwd) ==
    \E r \in get_current_session(sessions, cwd, clock) :
        \E hist \in file_types(r.session_id) :
            /\ Resolved(cwd, r)
            /\ ret' = [op |-> "get_session_analytics", cwd |-> cwd,
                       session_id |-> r.session_id,
                       value |-> Analytics(r.sessions, r.session_id, hist)]
            /\ UNCHANGED <<calls, clock, disk, tables, appended>>

----------------------------------------------------------------------------
(* SessionMemory.export_session *)

\* None where a query type is expected (query_type=None)
NoQueryType == "None"

ExportLimit == 1000

\* The data dict of export_session; json.dumps of it is not modelled.  Each of
\* the five query_session calls resolves the session again.
export_session(cwd) ==
    \E r \in get_current_session(sessions, cwd, clock) :
    \E r1 \in get_current_session(r.sessions, cwd, clock) :
    \E q1 \in QueryResults("reads", r1.session_id, ExportLimit) :
    \E r2 \in get_current_session(r1.sessions, cwd, clock) :
    \E q2 \in QueryResults("changes", r2.session_id, ExportLimit) :
    \E r3 \in get_current_session(r2.sessions, cwd, clock) :
    \E q3 \in QueryResults("tests", r3.session_id, ExportLimit) :
    \E r4 \in get_current_session(r3.sessions, cwd, clock) :
    \E q4 \in QueryResults("notes", r4.session_id, ExportLimit) :
    \E r5 \in get_current_session(r4.sessions, cwd, clock) :
    \E q5 \in QueryResults("errors", r5.session_id, ExportLimit) :
        /\ Resolved(cwd, r5)
        /\ ret' = [op |-> "export_session", cwd |-> cwd,
                   session_id |-> r.session_id,
                   value |-> [session_id  |-> r.session_id,
                              exported_at |-> clock,
                              reads       |-> q1.value,
                              changes     |-> q2.value,
                              tests       |-> q3.value,
                              notes       |-> q4.value,
                              errors      |-> q5.value]]
        /\ UNCHANGED <<calls, clock, disk, tables, appended>>

----------------------------------------------------------------------------
(* Calls in steps.  A method runs one statement group at a time: the SELECT of
   get_current_session, its UPDATE or INSERT with the commit, the before-hash
   SELECT of log_change, and the INSERT of the event with its commit.  Other
   processes may run between the steps, and a statement may raise. *)

\* the SELECT of get_current_session: the ids it may find, 0 for no row
lookup_session(sess, cwd) ==
    LET active == {s \in SeqToSet(sess) :
                      s.project_path = cwd /\ s.status = "active"}
        found  == OrderByDescLimit(active, [s \in active |-> s.last_active], 1)
    IN  IF active = {} THEN {0} ELSE {f[1].id : f \in found}

\* a write that looks the session up again in its own transaction
write_session_Rechecking(sess, cwd, found, now) ==
    CHOOSE r \in get_current_session(sess, cwd, now) : TRUE

\* the UPDATE or INSERT of get_current_session after a look-up that gave found,
\* and the commit
write_session(sess, cwd, found, now) ==
    IF found # 0
    THEN [sessions   |-> [sess EXCEPT ![found].last_active = now],
          session_id |-> found]
    ELSE [sessions   |-> Insert(sess,
                             [id           |-> NextRowid(sess),
                              project_path |-> cwd,
                              started_at   |-> now,
                              last_active  |-> now,
                              description  |-> SessionDescription(cwd),
                              status       |-> "active"]),
          session_id |-> NextRowid(sess)]

\* the table a method appends to
KindOfOp(op) ==
    CASE op = "log_read"   -> "reads"
      [] op = "log_change" -> "changes"
      [] op = "log_test"   -> "tests"
      [] op = "add_note"   -> "notes"
      [] op = "log_error"  -> "errors"

\* a before-hash looked up again when the row is inserted
before_hash_of_AtInsert(c, reads) ==
    CHOOSE b \in before_hashes(reads, c.session_id, AbsPath(c.cwd, c.args.file),
                               c.args.change_type) : TRUE

\* the local variable before_hash of log_change when it inserts
before_hash_of(c, reads) == c.before_hash

\* the row call c inserts, on disk d at time now
NewRow(c, d, now) ==
    CASE c.op = "log_read" ->
           [id         |-> NextRowid(file_reads),
            session_id |-> c.session_id,
            file_path  |-> AbsPath(c.cwd, c.args.file),
            file_hash  |-> file_hash(d, AbsPath(c.cwd, c.args.file)),
            read_at    |-> now,
            context    |-> IF c.args.context = None
                           THEN infer_context(d, AbsPath(c.cwd, c.args.file))
                           ELSE c.args.context]
      [] c.op = "log_change" ->
           [id          |-> NextRowid(changes),
            session_id  |-> c.session_id,
            file_path   |-> AbsPath(c.cwd, c.args.file),
            change_type |-> c.args.change_type,
            description |-> c.args.description,
            before_hash |-> before_hash_of(c, file_reads),
            after_hash  |-> after_hash_of(d, AbsPath(c.cwd, c.args.file),
                                          c.args.change_type),
            changed_at  |-> now]
      [] c.op = "log_test" ->
           [id         |-> NextRowid(tests),
            session_id |-> c.session_id,
            command    |-> c.args.command,
            result     |-> c.args.result,
            output     |-> c.args.output,
            run_at     |-> now]
      [] c.op = "add_note" ->
           [id         |-> NextRowid(notes),
            session_id |-> c.session_id,
            content    |-> c.args.content,
            tags       |-> tags_json_of(c.args.tags),
            created_at |-> now]
      [] c.op = "log_error" ->
           [id            |-> NextRowid(errors),
            session_id    |-> c.session_id,
            error_type    |-> c.args.error_type,
            error_message |-> c.args.error_message,
            file_path     |-> IF c.args.file # None /\ c.args.file # <<>>
                              THEN AbsPath(c.cwd, c.args.file)
                              ELSE None,
            context       |-> c.args.context,
            occurred_at   |-> now]

\* the INSERT of call c and its commit
Inserted(c) ==
    LET kind == KindOfOp(c.op)
        row  == NewRow(c, disk, clock)
    IN  /\ file_reads' = IF kind = "reads" THEN Insert(file_reads, row) ELSE file_reads
        /\ changes' = IF kind = "changes" THEN Insert(changes, row) ELSE changes
        /\ tests' = IF kind = "tests" THEN Insert(tests, row) ELSE tests
        /\ notes' = IF kind = "notes" THEN Insert(notes, row) ELSE notes
        /\ errors' = IF kind = "errors" THEN Insert(errors, row) ELSE errors

\* process p calls a method: get_current_session connects and runs its SELECT
Begin(p, op, cwd, args) ==
    /\ calls[p].pc = "idle"
    /\ \E found \in lookup_session(sessions, cwd) :
          calls' = [calls EXCEPT ![p] =
                       [pc |-> "write_session", op |-> op, cwd |-> cwd,
                        args |-> args, found |-> found, session_id |-> 0,
                        before_hash |-> None, reads_seen |-> 0,
                        snapshot |-> <<sessions, tables>>,
                        last_session |-> calls[p].last_session,
                        open |-> calls[p].open + 1]]
    /\ UNCHANGED <<clock, disk, sessions, tables, ret, resolved, appended>>

\* get_current_session updates or inserts, commits, closes and returns
WriteSession(p) ==
    LET c == calls[p]
        w == write_session(sessions, c.cwd, c.found, clock)
    IN  /\ c.pc = "write_session"
        /\ Resolved(c.cwd, w)
        /\ IF c.op = "init"
           THEN /\ calls' = [calls EXCEPT ![p] =
                                [NoCall EXCEPT !.last_session = w.session_id,
                                               !.open = c.open - 1]]
                /\ ret' = [op |-> "init", cwd |-> c.cwd, proc |-> p,
                           session_id |-> w.session_id, failed |-> FALSE]
           ELSE /\ calls' = [calls EXCEPT ![p] =
                                [c EXCEPT !.pc = IF /\ c.op = "log_change"
                                                    /\ c.args.change_type \in {"modify", "delete"}
                                                 THEN "before" ELSE "insert",
                                          !.session_id = w.session_id,
                                          !.open = c.open - 1]]
                /\ ret' = ret
        /\ UNCHANGED <<clock, disk, tables, appended>>

\* log_change connects, runs the SELECT of the latest read's hash and closes
LookupBefore(p) ==
    LET c == calls[p]
    IN  /\ c.pc = "before"
        /\ \E b \in latest_read_hash(file_reads, c.session_id,
                                     AbsPath(c.cwd, c.args.file)) :
              calls' = [calls EXCEPT ![p] =
                           [c EXCEPT !.before_hash = b, !.pc = "insert",
                                     !.reads_seen = Len(file_reads)]]
        /\ UNCHANGED <<clock, disk, sessions, tables, ret, resolved, appended>>

\* a failing call that leaves its row behind: raising after the row is visible
Raise_AfterInsert(p) ==
    LET c == calls[p]
    IN  /\ c.pc = "insert"
        /\ Inserted(c)
        /\ calls' = [calls EXCEPT ![p] =
                        [NoCall EXCEPT !.last_session = c.last_session,
                                       !.open = c.open + 1]]
        /\ ret' = [op |-> c.op, cwd |-> c.cwd, proc |-> p, failed |-> TRUE]
        /\ UNCHANGED <<clock, disk, sessions, resolved, appended>>

\* the statement process p is at raises (sqlite3.Error): the exception leaves
\* the method, nothing of the statement is committed and the connection the
\* method had open is not closed by it
Raise(p) ==
    LET c == calls[p]
    IN  /\ c.pc \in {"write_session", "before", "insert"}
        /\ calls' = [calls EXCEPT ![p] =
                        [NoCall EXCEPT !.last_session = c.last_session,
                                       !.open = IF c.pc = "write_session"
                                                THEN c.open ELSE c.open + 1]]
        /\ ret' = [op |-> c.op, cwd |-> c.cwd, proc |-> p, failed |-> TRUE]
        /\ UNCHANGED <<clock, disk, sessions, tables, resolved, appended>>

\* the SELECT of get_current_session raises
BeginAndRaise(p, op, cwd) ==
    /\ calls[p].pc = "idle"
    /\ calls' = [calls EXCEPT ![p].open = @ + 1]
    /\ ret' = [op |-> op, cwd |-> cwd, proc |-> p, failed |-> TRUE]
    /\ UNCHANGED <<clock, disk, sessions, tables, resolved, appended>>

\* the method inserts its event, commits, closes and returns the rowid
InsertEvent(p) ==
    LET c == calls[p]
    IN  /\ c.pc = "insert"
        /\ Inserted(c)
        /\ Counted(c.session_id, KindOfOp(c.op))
        /\ calls' = [calls EXCEPT ![p] =
                        [NoCall EXCEPT !.last_session = c.session_id,
                                       !.open = c.open]]
        /\ ret' = [op |-> c.op, cwd |-> c.cwd, proc |-> p,
                   session_id |-> c.session_id, failed |-> FALSE,
                   value |-> Len(TableOf(KindOfOp(c.op))) + 1]
        /\ UNCHANGED <<clock, disk, sessions, resolved>>

----------------------------------------------------------------------------
(* The environment *)

\* a second passes
Tick == 
    /\ clock' = clock + 1
    /\ UNCHANGED <<calls, disk, sessions, tables, ret, resolved, appended>>

\* n seconds pass
Wait(n) ==
    /\ clock' = clock + n
    /\ UNCHANGED <<calls, disk, sessions, tables, ret, resolved, appended>>

\* some program writes, creates or removes the file at path
WriteFile(path, entry) ==
    /\ Stat(disk, path) # entry
    /\ disk' = [disk EXCEPT ![path] = entry]
    /\ UNCHANGED <<calls, clock, sessions, tables, ret, resolved, appended>>

----------------------------------------------------------------------------------------------------------------------------------------
(* The ledger: every handler, called from two project directories *)

MaxClock == 1

MaxEvents == 2

MaxLimit == 1

ProjectPaths == {repo_path, other_path}

ChangeTypes == {"create", "modify", "delete"}

TestResults == {"pass", "fail", "error"}

TagArgs == {NoTags, <<>>, <<bug, urgent>>, <<urgent, quoted, bug>>}

QueryTypes == Kinds \cup {NoQueryType}

TotalEvents ==
    Len(file_reads) + Len(changes) + Len(tests) + Len(notes) + Len(errors)

Init ==
    /\ clock = 0
    /\ disk = [p \in {repo_main_py} |-> File(content_x1)]
    /\ sessions = <<>>
    /\ file_reads = <<>>
    /\ changes = <<>>
    /\ tests = <<>>
    /\ notes = <<>>
    /\ errors = <<>>
    /\ ret = [op |-> "none"]
    /\ resolved = [p \in ProjectPaths |-> [session_id |-> 0, last_active |-> 0]]
    /\ appended = [k \in Kinds |-> <<>>]
    /\ calls = [p \in Procs |-> NoCall]

Appends ==
    /\ TotalEvents < MaxEvents
    /\ \E cwd \in ProjectPaths :
          \/ log_read(cwd, main_py, None)
          \/ log_change(cwd, main_py, "modify", refactor)
          \/ \E res \in {"pass", "fail"} : log_test(cwd, pytest_cmd, res, None)
          \/ add_note(cwd, todo, <<bug, urgent>>)
          \/ log_error(cwd, ValueError, boom, None, None)

Reads ==
    \E cwd \in ProjectPaths :
        \/ init(cwd)
        \/ \E qt \in QueryTypes, limit \in 0..MaxLimit : query_session(cwd, qt, limit)
        \/ get_session_analytics(cwd)
        \/ export_session(cwd)

Next ==
    \/ Appends
    \/ Reads
    \/ clock < MaxClock /\ Tick

Spec == Init /\ [][Next]_vars

----------------------------------------------------------------------------
(* Reads and changes of one file whose content changes on disk *)

MaxDigestEvents == 3

DiskEntries == {Missing, File(content_x1), File(content_x2)}

NextDigest ==
    \/ /\ Len(file_reads) + Len(changes) < MaxDigestEvents
       /\ \/ \E c \in {None, why} : log_read(repo_path, main_py, c)
          \/ \E ct \in ChangeTypes : log_change(repo_path, main_py, ct, refactor)
    \/ \E qt \in {"reads", "changes"} : query_session(repo_path, qt, 10)
    \/ \E e \in DiskEntries : WriteFile(repo_main_py, e)
    \/ clock < MaxClock /\ Tick

SpecDigest == Init /\ [][NextDigest]_vars

----------------------------------------------------------------------------
(* Test runs and their success rate *)

MaxTests == 3

NextTests ==
    \/ /\ Len(tests) < MaxTests
       /\ \E cwd \in ProjectPaths, res \in TestResults :
             log_test(cwd, pytest_cmd, res, None)
    \/ \E cwd \in ProjectPaths : get_session_analytics(cwd)

SpecTests == Init /\ [][NextTests]_vars

----------------------------------------------------------------------------
(* Files of several types, and the file_types histogram.  The histogram does
   not depend on the order of the events, so the reads are logged before the
   changes, each in the order of TypeFiles, and analytics is asked for once
   after an append. *)

MaxTypeEvents == 6

TypeFiles == << <<"m","a","i","n",".","p","y">>, <<"a","p","p",".","j","s">>, <<"m","o","d",".","t","s">>,
               <<"v","i","e","w",".","j","s","x">>, <<"p","a","g","e",".","t","s","x">>, <<"s","t","y","l","e",".","c","s","s">> >>

\* the index in TypeFiles of the file of the last row of table, 0 if it is empty
LastLogged(table) ==
    IF table = <<>> THEN 0
    ELSE CHOOSE i \in 1..Len(TypeFiles) :
            table[Len(table)].file_path = AbsPath(repo_path, TypeFiles[i])

NextTypes ==
    \/ /\ Len(file_reads) + Len(changes) < MaxTypeEvents
       /\ \E i \in 1..Len(TypeFiles) :
             \/ /\ changes = <<>>
                /\ i >= LastLogged(file_reads)
                /\ log_read(repo_path, TypeFiles[i], why)
             \/ /\ i >= LastLogged(changes)
                /\ log_change(repo_path, TypeFiles[i], "create", refactor)
    \/ ret.op # "get_session_analytics" /\ get_session_analytics(repo_path)

SpecTypes == Init /\ [][NextTypes]_vars

----------------------------------------------------------------------------
(* Notes and their tags *)

MaxNotes == 2

NextNotes ==
    \/ /\ Len(notes) < MaxNotes
       /\ \E tags \in TagArgs : add_note(repo_path, todo, tags)
    \/ \E limit \in 0..MaxNotes : query_session(repo_path, "notes", limit)
    \/ clock < MaxClock /\ Tick

SpecNotes == Init /\ [][NextNotes]_vars

----------------------------------------------------------------------------
(* Hashing files of a project whose disk does not change: each of three paths
   is missing, a directory, unreadable, or a file with one of two contents *)

MaxHashEvents == 3

HashFiles == {TypeFiles[1], TypeFiles[2], TypeFiles[3]}

HashPaths == {AbsPath(repo_path, f) : f \in HashFiles}

HashEntries == {Missing, Directory, Denied, File(content_x1), File(content_x2)}

InitHash ==
    /\ clock = 0
    /\ disk \in [HashPaths -> HashEntries]
    /\ sessions = <<>>
    /\ file_reads = <<>>
    /\ changes = <<>>
    /\ tests = <<>>
    /\ notes = <<>>
    /\ errors = <<>>
    /\ ret = [op |-> "none"]
    /\ resolved = [p \in ProjectPaths |-> [session_id |-> 0, last_active |-> 0]]
    /\ appended = [k \in Kinds |-> <<>>]
    /\ calls = [p \in Procs |-> NoCall]

NextHash ==
    /\ Len(file_reads) + Len(changes) < MaxHashEvents
    /\ \E f \in HashFiles :
          \/ log_read(repo_path, f, None)
          \/ log_change(repo_path, f, "modify", refactor)

SpecHash == InitHash /\ [][NextHash]_vars

----------------------------------------------------------------------------
(* Context inference: files read without a context.  Each case is a file name,
   what is on disk under it, and the description the rules give it. *)

MaxInferEvents == 2

InferCases ==
    <<
       [name     |-> <<"u","s","e","r","_","a","p","i","_","t","e","s","t",".","p","y">>,
        entry    |-> File(<<"d","e","f"," ","t","e","s","t","_","l","o","g","i","n","(",")",":","\n"," "," "," "," ","p","a","s","s","\n">>),
        expected |-> <<"E","x","a","m","i","n","i","n","g"," ","p","y"," ","t","e","s","t"," ","f","i","l","e">>],
       [name     |-> <<"a","p","i","_","c","o","m","p","o","n","e","n","t",".","j","s">>,
        entry    |-> File(<<"c","l","a","s","s"," ","A"," ","{","}","\n">>),
        expected |-> <<"E","x","a","m","i","n","i","n","g"," ","j","s"," ","A","P","I"," ","c","o","d","e">>],
       [name     |-> <<"c","o","m","p","o","n","e","n","t","_","u","t","i","l",".","t","s">>,
        entry    |-> File(<<"i","m","p","o","r","t"," ","x","\n">>),
        expected |-> <<"E","x","a","m","i","n","i","n","g"," ","t","s"," ","c","o","m","p","o","n","e","n","t">>],
       [name     |-> <<"h","e","l","p","e","r","_","s","e","t","t","i","n","g","s",".","p","y">>,
        entry    |-> File(<<"c","l","a","s","s"," ","A",":","\n">>),
        expected |-> <<"E","x","a","m","i","n","i","n","g"," ","p","y"," ","u","t","i","l","i","t","y"," ","f","u","n","c","t","i","o","n","s">>],
       [name     |-> <<"s","e","t","t","i","n","g","s",".","p","y">>,
        entry    |-> File(<<"c","l","a","s","s"," ","F","o","o",":","\n">>),
        expected |-> <<"E","x","a","m","i","n","i","n","g"," ","p","y"," ","c","o","n","f","i","g","u","r","a","t","i","o","n">>],
       [name     |-> <<"m","o","d","e","l",".","p","y">>,
        entry    |-> File(<<"i","m","p","o","r","t"," ","o","s","\n","c","l","a","s","s"," ","F","o","o",":","\n"," "," "," "," ","d","e","f"," ","b","a","r","(","s","e","l","f",")",":","\n">>),
        expected |-> <<"E","x","a","m","i","n","i","n","g"," ","p","y"," ","c","l","a","s","s"," ","d","e","f","i","n","i","t","i","o","n">>],
       [name     |-> <<"v","i","e","w","s",".","p","y">>,
        entry    |-> File(<<"i","m","p","o","r","t"," ","o","s","\n","d","e","f"," ","f","o","o","(",")",":","\n">>),
        expected |-> <<"E","x","a","m","i","n","i","n","g"," ","p","y"," ","f","u","n","c","t","i","o","n"," ","d","e","f","i","n","i","t","i","o","n","s">>],
       [name     |-> <<"m","a","i","n",".","p","y">>,
        entry    |-> File(<<"f","r","o","m"," ","o","s"," ","i","m","p","o","r","t"," ","p","a","t","h","\n">>),
        expected |-> <<"E","x","a","m","i","n","i","n","g"," ","p","y"," ","m","o","d","u","l","e"," ","i","m","p","o","r","t","s"," ","a","n","d"," ","s","e","t","u","p">>],
       [name     |-> <<"p","l","a","i","n",".","p","y">>,
        entry    |-> File(<<"x","=","1","\n">>),
        expected |-> <<"E","x","a","m","i","n","i","n","g"," ","P","y","t","h","o","n"," ","c","o","d","e">>],
       [name     |-> <<"l","a","t","e",".","p","y">>,
        entry    |-> File(<<"x","\n","x","\n","x","\n","x","\n","x","\n","x","\n","x","\n","x","\n","x","\n","x","\n","c","l","a","s","s"," ","F","o","o",":","\n">>),
        expected |-> <<"E","x","a","m","i","n","i","n","g"," ","P","y","t","h","o","n"," ","c","o","d","e">>],
       [name     |-> <<"c","o","n","f","i","g","_","t","e","s","t",".","p","y">>,
        entry    |-> File(<<"d","e","f"," ","t","e","s","t","_","a","(",")",":","\n">>),
        expected |-> <<"E","x","a","m","i","n","i","n","g"," ","c","o","n","f","i","g","u","r","a","t","i","o","n"," ","f","i","l","e">>],
       [name     |-> <<"R","E","A","D","M","E","_","c","o","n","f","i","g",".","m","d">>,
        entry    |-> File(<<"x","=","1","\n">>),
        expected |-> <<"R","e","a","d","i","n","g"," ","p","r","o","j","e","c","t"," ","d","o","c","u","m","e","n","t","a","t","i","o","n">>],
       [name     |-> <<"n","o","t","e","s",".","t","x","t">>,
        entry    |-> File(<<"c","l","a","s","s"," ","F","o","o",":","\n">>),
        expected |-> <<"E","x","a","m","i","n","i","n","g"," ","t","x","t">>],
       [name     |-> <<"d","a","t","a">>,
        entry    |-> File(<<"x","=","1","\n">>),
        expected |-> <<"E","x","a","m","i","n","i","n","g"," ","f","i","l","e">>],
       [name     |-> <<"s","r","c">>,
        entry    |-> Directory,
        expected |-> <<"E","x","a","m","i","n","i","n","g"," ","d","i","r","e","c","t","o","r","y"," ","s","t","r","u","c","t","u","r","e">>],
       [name     |-> <<"S","p","e","c",".","J","S">>,
        entry    |-> File(<<"F","u","n","c","t","i","o","n"," "," ","g","o","(",")"," ","{","}","\n">>),
        expected |-> <<"E","x","a","m","i","n","i","n","g"," ","j","s"," ","t","e","s","t"," ","f","i","l","e">>],
       [name     |-> <<"a","p","i","_","t","e","s","t",".","t","s">>,
        entry    |-> Missing,
        expected |-> <<"E","x","a","m","i","n","i","n","g"," ","T","y","p","e","S","c","r","i","p","t"," ","c","o","d","e">>],
       [name     |-> <<"t","e","s","t","s",".","p","y">>,
        entry    |-> Directory,
        expected |-> <<"E","x","a","m","i","n","i","n","g"," ","P","y","t","h","o","n"," ","c","o","d","e">>],
       [name     |-> <<"c","l","a","s","s","y",".","p","y">>,
        entry    |-> File(<<"s","u","b","c","l","a","s","s","\t","x","\n">>),
        expected |-> <<"E","x","a","m","i","n","i","n","g"," ","p","y"," ","c","l","a","s","s"," ","d","e","f","i","n","i","t","i","o","n">>],
       [name     |-> <<"d","e","f","s",".","p","y">>,
        entry    |-> File(<<"d","e","f","\n">>),
        expected |-> <<"E","x","a","m","i","n","i","n","g"," ","P","y","t","h","o","n"," ","c","o","d","e">>]
    >>

InferFiles == {InferCases[i].name : i \in 1..Len(InferCases)}

InitInfer ==
    /\ clock = 0
    /\ disk = [p \in {AbsPath(repo_path, f) : f \in InferFiles} |->
                  InferCases[CHOOSE i \in 1..Len(InferCases) :
                                AbsPath(repo_path, InferCases[i].name) = p].entry]
    /\ sessions = <<>>
    /\ file_reads = <<>>
    /\ changes = <<>>
    /\ tests = <<>>
    /\ notes = <<>>
    /\ errors = <<>>
    /\ ret = [op |-> "none"]
    /\ resolved = [p \in ProjectPaths |-> [session_id |-> 0, last_active |-> 0]]
    /\ appended = [k \in Kinds |-> <<>>]
    /\ calls = [p \in Procs |-> NoCall]

NextInfer ==
    /\ Len(file_reads) < MaxInferEvents
    /\ \E f \in InferFiles : log_read(repo_path, f, None)

SpecInfer == InitInfer /\ [][NextInfer]_vars

----------------------------------------------------------------------------
(* One process whose statements may raise *)

MaxFailEvents == 2

MaxRaises == 2

\* the calls made: the method and its arguments
CallsMade ==
    {[op |-> "init", args |-> <<>>],
     [op |-> "log_read", args |-> [file |-> main_py, context |-> why]],
     [op |-> "log_change", args |-> [file |-> main_py, change_type |-> "modify",
                                     description |-> refactor]],
     [op |-> "log_test", args |-> [command |-> pytest_cmd, result |-> "pass",
                                   output |-> None]],
     [op |-> "add_note", args |-> [content |-> todo, tags |-> <<bug, urgent>>]],
     [op |-> "log_error", args |-> [error_type |-> ValueError,
                                    error_message |-> boom,
                                    file |-> None, context |-> None]]}

NextFail ==
    \/ /\ TotalEvents < MaxFailEvents
       /\ \E c \in CallsMade : Begin("p1", c.op, repo_path, c.args)
    \/ /\ calls["p1"].open < MaxRaises
       /\ \/ Raise("p1")
          \/ \E c \in CallsMade : BeginAndRaise("p1", c.op, repo_path)
    \/ WriteSession("p1")
    \/ LookupBefore("p1")
    \/ InsertEvent("p1")
    \/ clock < MaxClock /\ Tick

SpecFail == Init /\ [][NextFail]_vars

----------------------------------------------------------------------------
(* Reads and modifies of two files from two project directories, while one of
   the files changes on disk *)

MaxFrameEvents == 4

FrameFiles == {TypeFiles[1], TypeFiles[2]}

NextFrame ==
    \/ /\ Len(file_reads) + Len(changes) < MaxFrameEvents
       /\ \E cwd \in ProjectPaths, f \in FrameFiles :
             \/ log_read(cwd, f, why)
             \/ log_change(cwd, f, "modify", refactor)
    \/ \E e \in {File(content_x1), File(content_x2)} : WriteFile(repo_main_py, e)
    \/ clock < MaxClock /\ Tick

SpecFrame == Init /\ [][NextFrame]_vars

----------------------------------------------------------------------------
(* Sessions that last minutes: resolutions and analytics from two project
   directories, a little less or a little more than a minute apart *)

MaxDurationClock == 122

Waits == {59, 61}

NextDuration ==
    \/ \E cwd \in ProjectPaths :
          \/ init(cwd)
          \/ get_session_analytics(cwd)
    \/ \E n \in Waits : clock + n <= MaxDurationClock /\ Wait(n)

SpecDuration == Init /\ [][NextDuration]_vars

----------------------------------------------------------------------------
(* Files of every bucket of the histogram.  The histogram does not depend on
   the order of the events, so the reads are logged first, in the order of
   BucketFiles, then the changes, in the opposite order, each file any number
   of times, and analytics is asked for once after an append. *)

MaxBucketEvents == 7

BucketFiles == << <<"m","a","i","n",".","p","y">>,
                  <<"a","p","p",".","j","s">>,
                  <<"v","i","e","w",".","j","s","x">>,
                  <<"m","o","d",".","t","s">>,
                  <<"p","a","g","e",".","t","s","x">>,
                  <<"s","t","y","l","e",".","c","s","s">>,
                  <<"R","E","A","D","M","E",".","M","D">>,
                  <<"d","a","t","a",".","j","s","o","n">>,
                  <<"n","o","t","e","s",".","t","x","t">>,
                  <<"h","a","p","p","y">> >>

\* the index in BucketFiles of the file of the last row of table, none if it is
\* empty
LastBucket(table, none) ==
    IF table = <<>> THEN none
    ELSE CHOOSE i \in 1..Len(BucketFiles) :
            table[Len(table)].file_path = AbsPath(repo_path, BucketFiles[i])

NextBuckets ==
    \/ /\ Len(file_reads) + Len(changes) < MaxBucketEvents
       /\ \E i \in 1..Len(BucketFiles) :
             \/ /\ changes = <<>>
                /\ i \in {LastBucket(file_reads, 0), LastBucket(file_reads, 0) + 1}
                /\ log_read(repo_path, BucketFiles[i], why)
             \/ /\ i \in {LastBucket(changes, Len(BucketFiles) + 1),
                         LastBucket(changes, Len(BucketFiles) + 1) - 1}
                /\ log_change(repo_path, BucketFiles[i], "create", refactor)
    \/ ret.op # "get_session_analytics" /\ get_session_analytics(repo_path)

SpecBuckets == Init /\ [][NextBuckets]_vars

----------------------------------------------------------------------------
(* Two processes in one project directory, their calls interleaved *)

MaxRaceEvents == 2

RaceCalls ==
    {[op |-> "init", args |-> <<>>],
     [op |-> "log_read", args |-> [file |-> main_py, context |-> why]],
     [op |-> "log_change", args |-> [file |-> main_py, change_type |-> "modify",
                                     description |-> refactor]]}

\* the calls in flight that will insert an event
EventsInFlight ==
    Cardinality({p \in Procs : calls[p].pc # "idle" /\ calls[p].op # "init"})

NextRace ==
    \/ \E p \in Procs :
          \/ \E c \in RaceCalls :
                /\ c.op # "init" => TotalEvents + EventsInFlight < MaxRaceEvents
                /\ Begin(p, c.op, repo_path, c.args)
          \/ WriteSession(p)
          \/ LookupBefore(p)
          \/ InsertEvent(p)
    \/ WriteFile(repo_main_py, File(content_x2))
    \/ clock < MaxClock /\ Tick

SpecRace == Init /\ [][NextRace]_vars

----------------------------------------------------------------------------
(* Claims *)

\* a step that is a call of a handler made from working directory p
HandlerStep(p) ==
    /\ clock' = clock
    /\ disk' = disk
    /\ ret'.op # "none"
    /\ ret'.cwd = p

IsPrefix(s, u) == Len(s) <= Len(u) /\ SubSeq(u, 1, Len(s)) = s

\* the number of entries of the sequence s that equal x
Occurrences(s, x) == Cardinality({i \in 1..Len(s) : s[i] = x})

\* C1: a resolution of a project path that was resolved before returns the same
\* session id as the earlier one, and leaves last_active at least what the
\* earlier one left, equal to it only when the clock still shows the second of
\* the earlier resolution.
C1_ResolveIdempotent ==
    [][\A p \in ProjectPaths :
          (HandlerStep(p) /\ resolved[p].session_id # 0) =>
              /\ ret'.session_id = resolved[p].session_id
              /\ sessions'[ret'.session_id].last_active >= resolved[p].last_active
              /\ (sessions'[ret'.session_id].last_active = resolved[p].last_active
                    => clock' = resolved[p].last_active)]_vars

\* a project path was resolved, and resolved again after the clock advanced
C1_Witness ==
    \E p \in ProjectPaths :
        /\ resolved[p].session_id # 0
        /\ ret.op # "none" /\ ret.cwd = p
        /\ ret.session_id = resolved[p].session_id
        /\ sessions[ret.session_id].last_active > sessions[ret.session_id].started_at

\* the digest of what is at path on disk d, None if it cannot be read
DigestOnDisk(d, path) ==
    IF path \in DOMAIN d /\ d[path].kind = "file" THEN md5(d[path].bytes) ELSE None

\* the rows a step adds to the table changes
NewChanges == {changes'[i] : i \in (Len(changes) + 1)..Len(changes')}

\* C2: a change event of kind create has no before-digest, one of kind delete
\* has no after-digest, and one of kind create or modify has as after-digest
\* the digest of the file on disk when it is logged, None if it is unreadable.
C2_ChangeDigests ==
    [][/\ \A e \in SeqToSet(changes') :
             /\ e.change_type = "create" => e.before_hash = None
             /\ e.change_type = "delete" => e.after_hash = None
       /\ \A e \in NewChanges :
             e.change_type \in {"create", "modify"} =>
                 e.after_hash = DigestOnDisk(disk, e.file_path)]_vars

\* a create that found the file readable and a delete that found an earlier
\* read of the file are in the table
C2_Witness ==
    /\ \E e \in SeqToSet(changes) :
          e.change_type = "create" /\ e.after_hash # None
    /\ \E e \in SeqToSet(changes) :
          e.change_type = "delete" /\ e.before_hash # None

\* C3: the before-digest of a modify or delete is the digest of the read event
\* logged last for the same session and path before it, None if there is none.
C3_BeforeIsLatestRead ==
    [][\A e \in NewChanges :
          e.change_type \in {"modify", "delete"} =>
              LET rs == {r \in SeqToSet(file_reads) :
                            r.session_id = e.session_id /\ r.file_path = e.file_path}
              IN  e.before_hash =
                      IF rs = {} THEN None
                      ELSE (CHOOSE r \in rs : \A q \in rs : q.id <= r.id).file_hash]_vars

\* the one read and the one modify of the scenario, of the same file and session
ReadThenModify(reads, chs) ==
    /\ Len(reads) = 1
    /\ Len(chs) = 1
    /\ chs[1].change_type = "modify"
    /\ chs[1].file_path = reads[1].file_path
    /\ chs[1].session_id = reads[1].session_id

\* C4 (as amended): in a session with one read of a file, a modify of that file
\* logged next stores the read's digest as before_hash and the digest of the
\* file on disk as after_hash; a query of changes with limit 10 then returns
\* exactly one row, which carries the change's file_path, change_type,
\* description and changed_at.
C4_ReadModifyQuery ==
    [][/\ (HandlerStep(repo_path) /\ ret'.op = "log_change" /\ changes = <<>>
             /\ ReadThenModify(file_reads, changes')) =>
              /\ changes'[1].before_hash = file_reads[1].file_hash
              /\ changes'[1].after_hash = DigestOnDisk(disk, changes'[1].file_path)
              /\ changes'[1].description = refactor
       /\ (HandlerStep(repo_path) /\ ret'.op = "query_session"
             /\ ret'.query_type = "changes" /\ ret'.limit = 10
             /\ ReadThenModify(file_reads', changes')) =>
              /\ Len(ret'.value) = 1
              /\ ret'.value[1] = [file_path   |-> changes'[1].file_path,
                                  change_type |-> "modify",
                                  description |-> changes'[1].description,
                                  changed_at  |-> changes'[1].changed_at]]_vars

\* the scenario has run: the file was read, rewritten, logged as modified, and
\* the changes were queried
C4_Witness ==
    /\ ReadThenModify(file_reads, changes)
    /\ file_reads[1].file_hash # None
    /\ changes[1].before_hash = file_reads[1].file_hash
    /\ changes[1].after_hash \notin {None, changes[1].before_hash}
    /\ ret.op = "query_session" /\ ret.query_type = "changes" /\ ret.limit = 10
    /\ Len(ret.value) = 1

\* C4 as stated: the row the query returns matches the change in file_path,
\* change_type, description, before_hash and after_hash.
C4_RowHasDigests ==
    (/\ ret.op = "query_session" /\ ret.query_type = "changes" /\ ret.limit = 10
     /\ ReadThenModify(file_reads, changes)) =>
        /\ Len(ret.value) = 1
        /\ ret.value[1].file_path = changes[1].file_path
        /\ ret.value[1].change_type = changes[1].change_type
        /\ ret.value[1].description = changes[1].description
        /\ {"before_hash", "after_hash"} \subseteq DOMAIN ret.value[1]
        /\ ret.value[1].before_hash = changes[1].before_hash
        /\ ret.value[1].after_hash = changes[1].after_hash

\* C5: the ledger is append-only: whatever the step, every row of the five
\* event tables is still there afterwards, at its place and with its values.
C5_AppendOnly ==
    [][/\ IsPrefix(file_reads, file_reads')
       /\ IsPrefix(changes, changes')
       /\ IsPrefix(tests, tests')
       /\ IsPrefix(notes, notes')
       /\ IsPrefix(errors, errors')]_vars

\* the ledger holds two events and has just been exported
C5_Witness ==
    /\ TotalEvents >= 2
    /\ ret.op = "export_session"

\* the session ids whose project path is p
SessionsOf(sess, p) ==
    {sess[i].id : i \in {j \in 1..Len(sess) : sess[j].project_path = p}}

\* the rows of a query result of one kind all come from rows of table that
\* belong to a session in owners
RowsFrom(table, kind, value, owners) ==
    \A i \in 1..Len(value) :
        \E r \in SeqToSet(table) :
            /\ r.session_id \in owners
            /\ Project(kind, <<r>>)[1] = value[i]

\* C6: every event carries the id of an existing session; a handler called from
\* project path p appends only rows that carry the id its resolution returned,
\* which is a session of p; and what a query, analytics or an export called
\* from p reports comes from rows of sessions of p only.
C6_SessionOwnership ==
    [][/\ \A k \in Kinds : \A r \in SeqToSet(TableIn(tables', k)) :
             r.session_id \in 1..Len(sessions')
       /\ \A p \in ProjectPaths : HandlerStep(p) =>
           LET sid == ret'.session_id
           IN
             /\ sessions'[sid].project_path = p
             /\ \A k \in Kinds :
                  \A i \in (Len(TableOf(k)) + 1)..Len(TableIn(tables', k)) :
                      TableIn(tables', k)[i].session_id = sid
             /\ (ret'.op = "query_session" /\ ret'.query_type \in Kinds) =>
                  /\ \A i \in 1..Len(ret'.ids) :
                        TableIn(tables', ret'.query_type)[ret'.ids[i]].session_id
                            \in SessionsOf(sessions', p)
                  /\ RowsFrom(TableIn(tables', ret'.query_type), ret'.query_type,
                              ret'.value, SessionsOf(sessions', p))
             /\ (ret'.op = "query_session" /\ ret'.query_type \notin Kinds) =>
                  \A i \in 1..5 :
                      ret'.value[i].count =
                          Cardinality({r \in SeqToSet(TableIn(tables', ret'.value[i].type)) :
                                          r.session_id \in SessionsOf(sessions', p)})
             /\ (ret'.op = "get_session_analytics") =>
                  ret'.value.files_read =
                      Cardinality({r \in SeqToSet(file_reads') :
                                      r.session_id \in SessionsOf(sessions', p)})
             /\ (ret'.op = "export_session") =>
                  \A k \in Kinds :
                      RowsFrom(TableIn(tables', k), k, ret'.value[k],
                               SessionsOf(sessions', p))]_vars

\* both project paths have a session with an event, and a query made from one
\* of them has returned a row
C6_Witness ==
    /\ Len(sessions) = 2
    /\ \E k1, k2 \in Kinds :
          /\ \E r \in SeqToSet(TableOf(k1)) : r.session_id = 1
          /\ \E r \in SeqToSet(TableOf(k2)) : r.session_id = 2
    /\ ret.op = "query_session"
    /\ ret.query_type \in Kinds
    /\ Len(ret.value) = 1

\* C7: for every session, the five counts of the summary query equal
\* analytics' files_read, changes_made, tests_run, notes_added and
\* errors_logged, and each is the number of appends of that kind made to the
\* session; the last summary or analytics returned says the same.
C7_CountsAgree ==
    /\ \A sid \in 1..Len(sessions) :
          LET s == Summary(sid)
              a == Analytics(sessions, sid, <<>>)
          IN  /\ <<s[1].type, s[2].type, s[3].type, s[4].type, s[5].type>>
                    = <<"reads", "changes", "tests", "notes", "errors">>
              /\ s[1].count = a.files_read
              /\ s[2].count = a.changes_made
              /\ s[3].count = a.tests_run
              /\ s[4].count = a.notes_added
              /\ s[5].count = a.errors_logged
              /\ \A i \in 1..5 :
                    s[i].count = Occurrences(appended[s[i].type], sid)
    /\ (ret.op = "query_session" /\ ret.query_type \notin Kinds) =>
          \A i \in 1..5 :
              ret.value[i].count =
                  Occurrences(appended[ret.value[i].type], ret.session_id)
    /\ ret.op = "get_session_analytics" =>
          /\ ret.value.files_read = Occurrences(appended["reads"], ret.session_id)
          /\ ret.value.changes_made = Occurrences(appended["changes"], ret.session_id)
          /\ ret.value.tests_run = Occurrences(appended["tests"], ret.session_id)
          /\ ret.value.notes_added = Occurrences(appended["notes"], ret.session_id)
          /\ ret.value.errors_logged = Occurrences(appended["errors"], ret.session_id)

\* two sessions hold one event each, and analytics has reported on one of them
C7_Witness ==
    /\ Len(sessions) = 2
    /\ TotalEvents = 2
    /\ \A sid \in 1..2 : \E k \in Kinds : Occurrences(appended[k], sid) = 1
    /\ ret.op = "get_session_analytics"
    /\ ret.value.files_read + ret.value.changes_made + ret.value.tests_run
          + ret.value.notes_added + ret.value.errors_logged = 1

\* the tests of session sid whose result is in results
TestsWith(sid, results) ==
    Cardinality({i \in 1..Len(tests) :
                    tests[i].session_id = sid /\ tests[i].result \in results})

\* the double after x
Succ(x) == RoundNearestEven(x.m, x.e, TRUE, FALSE)

RECURSIVE ToInt(_)
ToInt(bits) ==
    IF bits = <<>> THEN 0
    ELSE 2 * ToInt(SubSeq(bits, 1, Len(bits) - 1)) + bits[Len(bits)]

\* ten times the double x (0 <= x < 2^52) rounded to one decimal, as format
\* .1f rounds it: to nearest on its exact value, ties to even
Tenths(x) ==
    IF x.m = <<>> THEN 0
    ELSE LET p     == Times(x.m, 10)
             s     == 52 - x.e
             pad   == [i \in 1..(IF s >= Len(p) THEN s - Len(p) + 1 ELSE 0) |-> 0]
             q     == pad \o p
             whole == ToInt(SubSeq(q, 1, Len(q) - s))
             frac  == SubSeq(q, Len(q) - s + 1, Len(q))
             up    == s > 0 /\ frac[1] = 1
                         /\ (~AllZero(Tail(frac)) \/ whole % 2 = 1)
         IN  IF up THEN whole + 1 ELSE whole

\* ten times n / d rounded to one decimal, ties to even
TenthsOfQuotient(n, d) ==
    LET q == (10 * n) \div d
        r == (10 * n) % d
    IN  IF 2 * r > d \/ (2 * r = d /\ q % 2 = 1) THEN q + 1 ELSE q

RECURSIVE SumCounts(_)
SumCounts(hist) ==
    IF hist = <<>> THEN 0 ELSE Head(hist).count + SumCounts(Tail(hist))

\* the file types of the paths that session sid read or changed
Buckets(sid) ==
    {FileType(r.file_path) :
        r \in {q \in SeqToSet(file_reads) \cup SeqToSet(changes) : q.session_id = sid}}

\* C9: the file_types histogram of analytics has at most 5 entries, its counts
\* sum to at most files_read + changes_made, and to exactly that when the
\* session's paths fall into 5 or fewer buckets.
C9_HistogramBounds ==
    ret.op = "get_session_analytics" =>
        LET a     == ret.value
            sum   == SumCounts(a.file_types)
            total == a.files_read + a.changes_made
        IN  /\ Len(a.file_types) <= 5
            /\ \A i, j \in 1..Len(a.file_types) :
                  a.file_types[i].file_type = a.file_types[j].file_type => i = j
            /\ sum <= total
            /\ Cardinality(Buckets(ret.session_id)) <= 5 => sum = total

\* analytics were taken of a session whose paths fall into six buckets
C9_Witness ==
    /\ ret.op = "get_session_analytics"
    /\ Cardinality(Buckets(ret.session_id)) = 6
    /\ Len(ret.value.file_types) = 5
    /\ SumCounts(ret.value.file_types) < ret.value.files_read + ret.value.changes_made

\* the kinds in the order of the summary
KindOrder == <<"reads", "changes", "tests", "notes", "errors">>

\* the number of rows of session sid in the table of kind
EventsOf(kind, sid) ==
    Cardinality({i \in 1..Len(TableOf(kind)) : TableOf(kind)[i].session_id = sid})

\* C11: a query with the kind omitted returns exactly five rows, for reads,
\* changes, tests, notes and errors in that order, each with the session's
\* number of events of that kind (0 when it has none), whatever the limit.
C11_SummaryRows ==
    (ret.op = "query_session" /\ ret.query_type = NoQueryType) =>
        /\ Len(ret.value) = 5
        /\ \A i \in 1..5 :
              ret.value[i] = [type  |-> KindOrder[i],
                              count |-> EventsOf(KindOrder[i], ret.session_id)]

\* a summary was asked for with limit 0 of a session that has events of some
\* kinds and none of others
C11_Witness ==
    /\ ret.op = "query_session" /\ ret.query_type = NoQueryType
    /\ ret.limit = 0
    /\ Len(ret.value) = 5
    /\ \E i, j \in 1..5 : ret.value[i].count = 0 /\ ret.value[j].count > 0

\* C12 (as amended): a note added with a tag list that is not empty is stored,
\* and returned by a query of notes, with tags that deserialize to the same tags
\* in the same order; tags are stored as null when they are absent or empty,
\* and only then.
C12_NonEmptyTagsRoundTrip ==
    [][/\ \A tags \in TagArgs :
             add_note(repo_path, todo, tags) =>
                 LET stored == notes'[Len(notes')].tags
                 IN  /\ (stored = None) <=> (tags \in {NoTags, <<>>})
                     /\ tags \notin {NoTags, <<>>} => json_loads(stored) = tags
       /\ (ret'.op = "query_session" /\ ret'.query_type = "notes") =>
              \A i \in 1..Len(ret'.value) :
                  ret'.value[i].tags = notes'[ret'.ids[i]].tags]_vars

\* a query returned a note without tags and a note whose tags, one of them with
\* a quote, a comma and a backslash, deserialize to what was given
C12_Witness ==
    /\ ret.op = "query_session" /\ ret.query_type = "notes"
    /\ \E i, j \in 1..Len(ret.value) :
          /\ ret.value[i].tags = None
          /\ ret.value[j].tags # None
          /\ json_loads(ret.value[j].tags) = <<urgent, quoted, bug>>

\* C12 as stated: a note added with a tag list is stored, and returned by a query of
\* notes, with tags that deserialize to the same tags in the same order; tags
\* are stored as null when they are absent and only then: a list, the empty
\* one included, is stored as a list.
C12_TagsRoundTrip ==
    [][/\ \A tags \in TagArgs :
             add_note(repo_path, todo, tags) =>
                 LET stored == notes'[Len(notes')].tags
                 IN  /\ (stored = None) <=> (tags = NoTags)
                     /\ tags # NoTags => json_loads(stored) = tags
       /\ (ret'.op = "query_session" /\ ret'.query_type = "notes") =>
              \A i \in 1..Len(ret'.value) :
                  ret'.value[i].tags = notes'[ret'.ids[i]].tags]_vars

\* the digests taken of files: <<path, digest>> of every read and of the
\* after-digest of every create or modify
DigestsTaken ==
    {<<r.file_path, r.file_hash>> : r \in SeqToSet(file_reads)}
    \cup {<<c.file_path, c.after_hash>> :
             c \in {e \in SeqToSet(changes) : e.change_type \in {"create", "modify"}}}

Readable(path) == Stat(disk, path).kind = "file"

\* on a disk that does not change, digests depend on the bytes only and are
\* None exactly for what cannot be read
HashByContent ==
    /\ \A a \in DigestsTaken : (a[2] = None) <=> ~Readable(a[1])
    /\ \A a, b \in DigestsTaken :
          (Readable(a[1]) /\ Readable(b[1])
             /\ Stat(disk, a[1]).bytes = Stat(disk, b[1]).bytes) => a[2] = b[2]

\* C13: the digest of a file depends on its bytes only: readable files with the
\* same bytes at different paths get the same digest, a path that cannot be
\* opened (missing, directory, permission denied) gets None, and log_read and
\* log_change append their event all the same, with that None.
C13_HashByContent ==
    [][/\ HashByContent'
       /\ ret'.op = "log_read" =>
             /\ Len(file_reads') = Len(file_reads) + 1
             /\ ~Readable(file_reads'[Len(file_reads')].file_path) =>
                    file_reads'[Len(file_reads')].file_hash = None
       /\ ret'.op = "log_change" =>
             /\ Len(changes') = Len(changes) + 1
             /\ ~Readable(changes'[Len(changes')].file_path) =>
                    changes'[Len(changes')].after_hash = None]_vars

\* two files with the same bytes at different paths were read, and a change of
\* a path that cannot be opened was logged
C13_Witness ==
    /\ \E a, b \in DigestsTaken :
          a[1] # b[1] /\ a[2] = b[2] /\ a[2] # None
    /\ \E c \in SeqToSet(changes) :
          Stat(disk, c.file_path).kind \in {"dir", "denied"} /\ c.after_hash = None

\* the case of the file at path
CaseOf(path) ==
    InferCases[CHOOSE i \in 1..Len(InferCases) :
                  AbsPath(repo_path, InferCases[i].name) = path]

\* the suffix of the file's name is a key of contexts
KnownExtension(path) == Lower(Suffix(Basename(path))) \in Keys(contexts)

AppendOps == {"log_read", "log_change", "log_test", "add_note", "log_error"}

\* this step ends a call of process p by an exception
Fails(p) == calls'[p] # calls[p] /\ calls'[p].pc = "idle" /\ ret'.failed

\* this step ends a call of an append method by process p with its return
Returns(p) ==
    /\ calls[p].pc = "insert"
    /\ calls'[p].pc = "idle"
    /\ ~ ret'.failed

\* the store as it was when the call that process p is in, or begins, began
StoreBefore(p) ==
    IF calls[p].pc = "idle" THEN <<sessions, tables>> ELSE calls[p].snapshot

\* the number of rows in the event tables tabs
RowsIn(tabs) == Len(tabs[1]) + Len(tabs[2]) + Len(tabs[3]) + Len(tabs[4]) + Len(tabs[5])

\* C15 (as amended): an append that fails adds no event row; if it fails in the
\* session resolution the store is as it was before the call, and if it fails
\* after it the only difference is what the resolution committed: the new
\* session row, or the session's later last_active.  An append that succeeds
\* has added exactly one event row.
C15_EventRowAtomic ==
    [][/\ \A op \in AppendOps :
             (Fails("p1") /\ ret'.op = op) =>
                 /\ tables' = StoreBefore("p1")[2]
                 /\ calls["p1"].pc \in {"idle", "write_session"} =>
                        sessions' = StoreBefore("p1")[1]
                 /\ calls["p1"].pc \in {"before", "insert"} =>
                        \E now \in 0..clock :
                            \E r \in get_current_session(StoreBefore("p1")[1],
                                                         calls["p1"].cwd, now) :
                                sessions' = r.sessions
       /\ Returns("p1") =>
             /\ RowsIn(tables') = RowsIn(StoreBefore("p1")[2]) + 1
             /\ Len(TableIn(tables', KindOfOp(ret'.op)))
                    = Len(TableIn(StoreBefore("p1")[2], KindOfOp(ret'.op))) + 1]_vars

\* an append on a path without a session failed at its INSERT: the session it
\* created is there and no event is
C15_Witness ==
    /\ ret.op \in AppendOps
    /\ ret.failed
    /\ calls["p1"].pc = "idle"
    /\ Len(sessions) = 1
    /\ TotalEvents = 0

\* C15 as stated: after an append that fails the store is what it was before
\* the call, session rows and last_active included, and an append that succeeds
\* has added exactly one event row.
C15_NoPartialWrites ==
    [][/\ \A op \in AppendOps :
             (Fails("p1") /\ ret'.op = op) =>
                 <<sessions', tables'>> = StoreBefore("p1")
       /\ Returns("p1") =>
             RowsIn(tables') = RowsIn(StoreBefore("p1")[2]) + 1]_vars

\* this step is the UPDATE or INSERT of get_current_session in process p
WritesSession(p) ==
    calls[p].pc = "write_session" /\ calls'[p].pc # "write_session"

\* the session id get_current_session returns to process p at this step
Obtained(p) ==
    IF calls[p].op = "init" THEN calls'[p].last_session ELSE calls'[p].session_id

\* the active sessions of project path cwd
ActiveSessions(cwd) ==
    {s \in SeqToSet(sessions) : s.project_path = cwd /\ s.status = "active"}

\* C16: with two processes resolving one project path, the insert is decided
\* by the look-up made in an earlier step: a process whose look-up found no
\* active session inserts one and obtains its id even when another process has
\* inserted one in between, so two active sessions of one path and two
\* different ids obtained are reachable (the witness).
C16_InsertAfterStaleLookup ==
    [][\A p \in Procs :
          WritesSession(p) =>
              IF calls[p].found = 0
              THEN /\ Len(sessions') = Len(sessions) + 1
                   /\ sessions'[Len(sessions')].project_path = calls[p].cwd
                   /\ sessions'[Len(sessions')].status = "active"
                   /\ Obtained(p) = Len(sessions')
              ELSE /\ Len(sessions') = Len(sessions)
                   /\ Obtained(p) = calls[p].found]_vars

\* two active sessions of /repo, and the two processes were given different ids
C16_Witness ==
    /\ Cardinality(ActiveSessions(repo_path)) = 2
    /\ calls["p1"].last_session # 0
    /\ calls["p2"].last_session # 0
    /\ calls["p1"].last_session # calls["p2"].last_session

\* this step is the INSERT of a modify or delete by process p
InsertsChange(p) ==
    /\ calls[p].pc = "insert" /\ calls'[p].pc = "idle"
    /\ calls[p].op = "log_change"
    /\ calls[p].args.change_type \in {"modify", "delete"}
    /\ Len(changes') = Len(changes) + 1

\* C17: the before-digest a modify or delete inserts is the one its look-up
\* found among the reads committed by then, whatever reads other processes
\* committed between the look-up and the insert, so a change whose before-digest
\* is not that of the latest read committed before it is reachable (the
\* witness).
C17_BeforeFromEarlierLookup ==
    [][\A p \in Procs :
          InsertsChange(p) =>
              changes'[Len(changes')].before_hash \in
                  latest_read_hash(SubSeq(file_reads, 1, calls[p].reads_seen),
                                   calls[p].session_id,
                                   AbsPath(calls[p].cwd, calls[p].args.file))]_vars

\* a change stands after a read of its session and path that was committed in
\* an earlier second and is the only latest one, with another before-digest
C17_Witness ==
    \E c \in SeqToSet(changes) :
        LET rs == {r \in SeqToSet(file_reads) :
                      /\ r.session_id = c.session_id
                      /\ r.file_path = c.file_path
                      /\ r.read_at < c.changed_at}
        IN  /\ c.change_type = "modify"
            /\ \E r \in rs :
                  /\ \A q \in rs \ {r} : q.read_at < r.read_at
                  /\ c.before_hash # r.file_hash

\* the ids of the rows of table sess whose project path is cwd
SessionsAt(sess, cwd) == {s.id : s \in {r \in SeqToSet(sess) : r.project_path = cwd}}

\* C18: with handlers called one after another, the table sessions never holds
\* two rows of one project path; a handler inserts a session row only when its
\* path has no active one, and returns the path's one session, the same as
\* every earlier handler of that path did.
C18_OneSessionPerPath ==
    [][/\ \A p \in ProjectPaths : Cardinality(SessionsAt(sessions', p)) <= 1
       /\ \A p \in ProjectPaths :
             HandlerStep(p) =>
                /\ SessionsAt(sessions', p) \ SessionsAt(sessions, p) # {}
                      => ~ \E i \in SessionsAt(sessions, p) :
                              sessions[i].status = "active"
                /\ \A i \in SessionsAt(sessions, p) : ret'.session_id = i
                /\ ret'.session_id \in SessionsAt(sessions', p)
                /\ \A q \in ProjectPaths \ {p} :
                      SessionsAt(sessions', q) = SessionsAt(sessions, q)]_vars

\* both project paths have their session, and the older one was returned again
\* after the newer one was inserted
C18_Witness ==
    /\ \A p \in ProjectPaths : Cardinality(SessionsAt(sessions, p)) = 1
    /\ ret.op # "none"
    /\ ret.session_id = 1
    /\ sessions[2].last_active < sessions[1].last_active

\* the reads of session sid and path file_path, in the order of the table
ReadsOf(sid, file_path) ==
    SelectSeq(file_reads, LAMBDA r : r.session_id = sid /\ r.file_path = file_path)

\* every read of the session and path of change c is of an earlier second
NoReadSince(c) ==
    \A i \in 1..Len(file_reads) :
        (file_reads[i].session_id = c.session_id
           /\ file_reads[i].file_path = c.file_path)
        => file_reads[i].read_at < c.changed_at

\* C19: the before-digest of a modify is a digest the look-up gives on the
\* reads of its own session and path alone: whatever changes, reads of other
\* paths, events of other sessions and writes to the file on disk there were,
\* two modifies of one path with no read of it since the first carry the same
\* before-digest (a digest of the same latest second, when reads of several
\* digests share it), also when the first one's after-digest is another.
C19_BeforeDependsOnOwnReads ==
    \A i \in 1..Len(changes), j \in 1..Len(changes) :
        LET c1 == changes[i]
            c2 == changes[j]
            own == latest_read_hash(ReadsOf(c1.session_id, c1.file_path),
                                    c1.session_id, c1.file_path)
        IN  (/\ i <= j
             /\ c1.change_type = "modify" /\ c2.change_type = "modify"
             /\ c1.session_id = c2.session_id /\ c1.file_path = c2.file_path
             /\ NoReadSince(c1))
            => /\ c1.before_hash \in own
               /\ c2.before_hash \in own
               /\ Cardinality(own) = 1 => c1.before_hash = c2.before_hash

\* two modifies of /repo/main.py after its read carry the read's digest, the
\* first with another after-digest, and a read of another path or session with
\* another digest was logged no earlier than the first modify
C19_Witness ==
    \E i \in 1..Len(changes), j \in 1..Len(changes) :
        LET c1 == changes[i]
            c2 == changes[j]
        IN  /\ i < j
            /\ c1.file_path = repo_main_py /\ c2.file_path = repo_main_py
            /\ NoReadSince(c1)
            /\ c1.before_hash # None
            /\ c1.after_hash \notin {None, c1.before_hash}
            /\ c2.before_hash = c1.before_hash
            /\ \E r \in SeqToSet(file_reads) :
                  /\ r.file_path # repo_main_py
                  /\ r.read_at >= c1.changed_at
                  /\ r.file_hash # c1.before_hash

\* C20: the duration_minutes analytics returns is the whole number of minutes
\* in last_active - started_at, rounded down, of the session row as it is after
\* the resolution analytics itself made (its last_active is the time of the
\* call); it is never negative, no session of the table having a last_active
\* before its started_at.
C20_DurationMinutes ==
    [][/\ \A i \in 1..Len(sessions') :
             sessions'[i].last_active >= sessions'[i].started_at
       /\ \A p \in ProjectPaths :
             (HandlerStep(p) /\ ret'.op = "get_session_analytics") =>
                 LET s == sessions'[ret'.session_id]
                 IN  /\ s.last_active = clock
                     /\ ret'.value.duration_minutes =
                            (s.last_active - s.started_at) \div 60
                     /\ ret'.value.duration_minutes >= 0]_vars

\* analytics found a session of at least a minute, not a whole number of
\* minutes long, which an earlier resolution had left shorter by a minute
C20_Witness ==
    /\ ret.op = "get_session_analytics"
    /\ ret.value.duration_minutes = 1
    /\ LET s == sessions[ret.session_id]
       IN  /\ s.last_active - s.started_at = 118
           /\ s.last_active = clock

\* the extensions with a bucket of their own, and the buckets' labels
Extensions ==
    { [ext |-> <<"p","y">>, label |-> "Python"],
      [ext |-> <<"j","s">>, label |-> "JavaScript"],
      [ext |-> <<"t","s">>, label |-> "TypeScript"],
      [ext |-> <<"j","s","x">>, label |-> "React"],
      [ext |-> <<"t","s","x">>, label |-> "React TS"],
      [ext |-> <<"c","s","s">>, label |-> "CSS"],
      [ext |-> <<"m","d">>, label |-> "Markdown"],
      [ext |-> <<"j","s","o","n">>, label |-> "JSON"] }

\* the path ends in a dot and the extension, in letters of either case
HasExtension(path, ext) == EndsWith(Lower(path), <<".">> \o ext)

\* the path belongs to the bucket of that label
InBucket(path, label) ==
    IF label = "Other"
    THEN \A x \in Extensions : ~ HasExtension(path, x.ext)
    ELSE \E x \in Extensions : x.label = label /\ HasExtension(path, x.ext)

\* the number of reads plus the number of changes of session sid whose path
\* belongs to the bucket of that label
EventsInBucket(sid, label) ==
    Cardinality({i \in 1..Len(file_reads) :
                    /\ file_reads[i].session_id = sid
                    /\ InBucket(file_reads[i].file_path, label)})
    + Cardinality({i \in 1..Len(changes) :
                      /\ changes[i].session_id = sid
                      /\ InBucket(changes[i].file_path, label)})

\* C21: every bucket analytics reports in file_types carries the number of
\* reads plus changes of the session whose path ends in the bucket's extension
\* (py, js, ts, jsx, tsx, css, md, json, in letters of either case, Other for
\* the rest), each event counted once; the buckets come in non-increasing order
\* of count, and a bucket with events that is left out is left out of five and
\* has no more events than any reported one.
C21_FileTypeBuckets ==
    [][\A p \in ProjectPaths :
          (HandlerStep(p) /\ ret'.op = "get_session_analytics") =>
              LET h   == ret'.value.file_types
                  sid == ret'.session_id
                  reported == {h[i].file_type : i \in 1..Len(h)}
              IN  /\ \A i \in 1..Len(h) :
                        /\ h[i].count = EventsInBucket(sid, h[i].file_type)
                        /\ h[i].count > 0
                  /\ \A i, j \in 1..Len(h) :
                        /\ i < j => h[i].count >= h[j].count
                        /\ h[i].file_type = h[j].file_type => i = j
                  /\ \A label \in {x.label : x \in Extensions} \cup {"Other"} :
                        (EventsInBucket(sid, label) > 0 /\ label \notin reported)
                        => /\ Len(h) = 5
                           /\ \A i \in 1..Len(h) :
                                 h[i].count >= EventsInBucket(sid, label)]_vars

\* analytics of a session with reads and changes in more than five buckets,
\* README.MD among them, reported a bucket of several events first and left a
\* bucket out
C21_Witness ==
    /\ ret.op = "get_session_analytics"
    /\ Len(ret.value.file_types) = 5
    /\ ret.value.file_types[1].count > ret.value.file_types[5].count
    /\ ret.value.files_read > 0 /\ ret.value.changes_made > 0
    /\ EventsInBucket(ret.session_id, "Markdown") > 0
    /\ Cardinality({l \in {x.label : x \in Extensions} \cup {"Other"} :
                       EventsInBucket(ret.session_id, l) > 0}) > 5

\* the lower-cased file name holds one of the keywords of the refinements
FilenameKeyword(filename_lower) ==
    \E k \in { <<"t","e","s","t">>, <<"s","p","e","c">>, <<"a","p","i">>,
               <<"e","n","d","p","o","i","n","t">>,
               <<"c","o","m","p","o","n","e","n","t">>, <<"u","t","i","l">>,
               <<"h","e","l","p","e","r">>, <<"c","o","n","f","i","g">>,
               <<"s","e","t","t","i","n","g">> } : Contains(filename_lower, k)

\* no special file name pattern is in the name of the file at path
NoSpecialFile(path) ==
    \A k \in Keys(special_files) : ~ Contains(Lower(Basename(path)), k)

\* C22: a read of a file with a known extension, no special file name and a
\* refinement keyword in its name is logged with the context of the first
\* refinement its name matches (test/spec, api/endpoint, component,
\* util/helper, config/setting), whether its content can be read or not.
C22_RefinedByFilenameAlone ==
    \A r \in SeqToSet(file_reads) :
        LET filename_lower == Lower(Basename(r.file_path))
            suffix == Lower(Suffix(Basename(r.file_path)))
        IN  (/\ KnownExtension(r.file_path)
             /\ NoSpecialFile(r.file_path)
             /\ FilenameKeyword(filename_lower))
            => r.context = Refine(filename_lower, SubSeq(suffix, 2, Len(suffix)),
                                  FirstMatch(contexts, {suffix})[2], <<>>)

\* C23: whenever process p1 is between two calls, every connection its calls
\* opened has been closed, whether the calls returned or raised.
C23_ConnectionsReleased ==
    calls["p1"].pc = "idle" => calls["p1"].open = 0

\* C24: a step deletes no session row and leaves the id, project path,
\* started_at and description of every row as they are; every row is active,
\* its last_active never goes back, and changes only in a step of a handler
\* called in the row's own project path.
C24_SessionLifecycle ==
    [][/\ Len(sessions') >= Len(sessions)
       /\ \A i \in 1..Len(sessions') :
             /\ sessions'[i].id = i
             /\ sessions'[i].status = "active"
       /\ \A i \in 1..Len(sessions) :
             /\ sessions'[i].id = sessions[i].id
             /\ sessions'[i].project_path = sessions[i].project_path
             /\ sessions'[i].started_at = sessions[i].started_at
             /\ sessions'[i].description = sessions[i].description
             /\ sessions'[i].last_active >= sessions[i].last_active
             /\ sessions'[i].last_active # sessions[i].last_active
                   => HandlerStep(sessions[i].project_path)]_vars

\* of two sessions created in the same second, a later resolution touched the
\* one of its own path and left the other as it was
C24_Witness ==
    /\ Len(sessions) = 2
    /\ sessions[1].started_at = sessions[2].started_at
    /\ sessions[2].last_active > sessions[2].started_at
    /\ sessions[1].last_active = sessions[1].started_at
    /\ ret.op # "none"
    /\ ret.cwd = sessions[2].project_path

\* the methods that append nothing
ReadingOps == {"query_session", "get_session_analytics", "export_session"}

\* C25: query_session, get_session_analytics and export_session leave the five
\* event tables as they are, but not the table sessions: the session of the
\* working directory gets the time of the call as last_active, and where the
\* directory had no session one is inserted, for which query_session returns
\* the empty list, or the five counts of zero.
C25_ReadersTouchSession ==
    [][\A p \in ProjectPaths :
          (HandlerStep(p) /\ ret'.op \in ReadingOps) =>
              /\ tables' = tables
              /\ ret'.session_id \in 1..Len(sessions')
              /\ sessions'[ret'.session_id].project_path = p
              /\ sessions'[ret'.session_id].last_active = clock
              /\ IF SessionsAt(sessions, p) = {}
                 THEN /\ Len(sessions') = Len(sessions) + 1
                      /\ ret'.session_id = Len(sessions')
                      /\ sessions'[ret'.session_id].started_at = clock
                      /\ ret'.op = "query_session" =>
                            IF ret'.query_type = NoQueryType
                            THEN ret'.value = [i \in 1..5 |->
                                                  [type |-> KindOrder[i], count |-> 0]]
                            ELSE ret'.value = <<>>
                 ELSE /\ Len(sessions') = Len(sessions)
                      /\ ret'.session_id \in SessionsAt(sessions, p)]_vars

\* a query, an analytics or an export found the session of its directory with
\* events and an older last_active, and left it with the time of the call
C25_Witness ==
    /\ ret.op \in ReadingOps
    /\ sessions[ret.session_id].last_active > sessions[ret.session_id].started_at
    /\ resolved[ret.cwd].last_active = clock
    /\ \E k \in Kinds : EventsOf(k, ret.session_id) > 0

\* the rowids of the rows of one kind that belong to session sid
RowidsOf(kind, sid) ==
    {r.id : r \in {q \in SeqToSet(TableOf(kind)) : q.session_id = sid}}

\* C10: a query of one kind with limit L >= 0 returns min(L, n) rows of the
\* resolved session's n rows of that kind, most recent first: a row appended
\* later never comes after a row appended earlier, and the rows the limit
\* drops are the oldest.
C10_MostRecentFirst ==
    (ret.op = "query_session" /\ ret.query_type \in Kinds) =>
        LET mine == RowidsOf(ret.query_type, ret.session_id)
            ids  == ret.ids
        IN  /\ Len(ret.value) = Min(ret.limit, Cardinality(mine))
            /\ Len(ids) = Len(ret.value)
            /\ \A i \in 1..Len(ids) :
                  /\ ids[i] \in mine
                  /\ ret.value[i] =
                        Project(ret.query_type, <<TableOf(ret.query_type)[ids[i]]>>)[1]
            /\ \A i, j \in 1..Len(ids) : i < j => ids[i] > ids[j]
            /\ \A d \in mine \ SeqToSet(ids) : \A i \in 1..Len(ids) : d < ids[i]

====
